---- MODULE Spec2Model ----
(***************************************************************************)
(* A model of the wave-analysis batch drivers (2-channel/signalProcessing2C *)
(* .py and waveanalysis/data_workflows/combined.py) and of the             *)
(* SignalProcessor class (2-channel/signal_processing_class.py).           *)
(*                                                                         *)
(* Strings that the code searches (file names, group labels) are sequences *)
(* of one-character strings.  Real numbers are kept exact: a rational is a *)
(* normalised pair <<num, den>>, a standard deviation is kept as the       *)
(* rational under the square root, and NaN is the value NaN.               *)
(***************************************************************************)
EXTENDS Integers, Sequences, FiniteSets, TLC

VARIABLES
    driver,        \* which entry point runs: "script" (signalProcessing2C.py) or "combined"
    folder,        \* the directory: a dict from entry name to the kind of image stored there
    listdir,       \* os.listdir(folder_path): the entries in the order the OS returns them
    group_names,   \* gui.group_names
    acf_peak_thresh,  \* gui.acf_peak_thresh, as the pair <<numerator, denominator>>
    image_px,      \* the pixels imread returned, when the boxes are cut from pixels
    box_size,      \* the box_size handed to the constructor with those pixels
    file_names,    \* the .tif, non-hidden entries of listdir, in listing order
    log_params,    \* the run log dictionary (its list-valued keys)
    col_headers,   \* the column headers collected from the summaries
    summary_list,  \* one summary dictionary per processed file
    summary_df,    \* the rows of the summary data frame, or None before it exists
    log_file,      \* what make_log wrote, or None
    pc,            \* control point of the driver, or of the caller of the class
    idx,           \* number of files of file_names the main loop has taken up
    group_name,    \* group matched for the current file
    processor,     \* the SignalProcessor of the current file (its constructor's fields)
    acf_results,   \* processor.acf_results
    ccf_results,   \* processor.ccf_results
    peak_results,  \* processor.peak_results
    im_measurements,    \* processor.im_measurements (rows of the data frame)
    file_data_summary,  \* processor.file_data_summary
    measurement_list,  \* the list object handed to add_stats
    raised         \* the uncaught exception that ended the run, or "none"

inputVars == <<driver, folder, listdir, group_names, acf_peak_thresh, image_px, box_size>>
batchVars == <<file_names, log_params, col_headers, summary_list, summary_df, log_file,
               idx, group_name>>
driverVars == <<inputVars, batchVars>>
resultVars == <<acf_results, ccf_results, peak_results, im_measurements,
                file_data_summary>>

vars == <<driverVars, pc, processor, resultVars, measurement_list, raised>>

(***************************************************************************)
(* Bounds of the model.                                                    *)
(***************************************************************************)
MaxFiles == 2       \* entries in the analysed directory
MaxGroups == 2      \* labels typed into the GUI
MaxBoxes == 2       \* boxes of an image handed to SignalProcessor directly
MaxLen == 4         \* length of a list handed to add_stats
MaxDim == 4         \* height, width and box size of an image given by its pixels

None == "None"
\* Python's None where a string is expected (no string of the model is this one)
NoneStr == <<"<None>">>

(***************************************************************************)
(* Sequences and strings.                                                  *)
(***************************************************************************)
SeqsUpTo(S, n) == UNION {[1..k -> S] : k \in 0..n}

Range(s) == {s[i] : i \in DOMAIN s}

\* sum(s), added up by halves
RECURSIVE SumSeq(_)
SumSeq(s) ==
    IF Len(s) = 0 THEN 0
    ELSE IF Len(s) = 1 THEN s[1]
    ELSE SumSeq(SubSeq(s, 1, Len(s) \div 2)) + SumSeq(SubSeq(s, (Len(s) \div 2) + 1, Len(s)))

\* Python's `sub in s` for strings: sub occurs in s as a contiguous run.
StrIn(sub, s) ==
    \E k \in 0..(Len(s) - Len(sub)) :
        \A j \in 1..Len(sub) : s[k + j] = sub[j]

\* str.endswith and str.startswith
EndsWith(s, suf) ==
    /\ Len(suf) <= Len(s)
    /\ \A j \in 1..Len(suf) : s[Len(s) - Len(suf) + j] = suf[j]

StartsWith(s, pre) ==
    /\ Len(pre) <= Len(s)
    /\ \A j \in 1..Len(pre) : s[j] = pre[j]

\* file_name.rsplit(".", 1)[0]: the text before the last ".", or all of it
RSplitDot(s) ==
    LET dots == {i \in DOMAIN s : s[i] = "."}
    IN  IF dots = {} THEN s
        ELSE SubSeq(s, 1, (CHOOSE i \in dots : \A j \in dots : j <= i) - 1)

Ext == <<".", "t", "i", "f">>
Dot == <<".">>


(***************************************************************************)
(* Exact arithmetic.                                                       *)
(***************************************************************************)
Abs(x) == IF x < 0 THEN -x ELSE x

RECURSIVE GCD(_, _)
GCD(a, b) == IF b = 0 THEN a ELSE GCD(b, a % b)

\* Floating-point values are rationals in lowest terms <<n, d>>, d > 0, extended
\* with NaN (0/0) and +inf (1/0).
NaN == <<0, 0>>
Inf == <<1, 0>>
Num(n) == <<n, 1>>

\* The rational n/d (d # 0) in lowest terms with a positive denominator.
Frac(n, d) ==
    LET g == GCD(Abs(n), Abs(d))
        sg == IF d < 0 THEN -1 ELSE 1
    IN  <<(sg * n) \div g, (sg * d) \div g>>

\* a < b, compared over the least common denominator
FracLess(a, b) ==
    a[1] * (b[2] \div GCD(a[2], b[2])) < b[1] * (a[2] \div GCD(a[2], b[2]))
\* sums are taken over the least common denominator
FracAdd(a, b) ==
    LET g == GCD(a[2], b[2])
    IN  Frac(a[1] * (b[2] \div g) + b[1] * (a[2] \div g), (a[2] \div g) * b[2])
FracSub(a, b) == FracAdd(a, <<-b[1], b[2]>>)
\* a / b for rationals; the caller handles b = 0
FracDiv(a, b) == Frac(a[1] * b[2], a[2] * b[1])

\* The elements of a finite set of integers in ascending order.
RECURSIVE SortedSeq(_)
SortedSeq(S) ==
    IF S = {} THEN <<>>
    ELSE LET m == CHOOSE x \in S : \A y \in S : x <= y
         IN  <<m>> \o SortedSeq(S \ {m})

(***************************************************************************)
(* numpy and scipy operations used by SignalProcessor.                     *)
(*                                                                         *)
(* A box's time series is a sequence of integers.  `signal - signal.mean()`*)
(* is kept multiplied by len(signal), which keeps it integral; a           *)
(* correlation curve is the record [num, densq] whose k-th value is        *)
(* num[k] / sqrt(densq), and every value is NaN when densq = 0 (numpy's    *)
(* 0/0 with the floating-point errors silenced).                           *)
(***************************************************************************)
\* len(s) * (s - s.mean())
Centre(s) == [i \in DOMAIN s |-> Len(s) * s[i] - SumSeq(s)]

\* sum of squares of Centre(s) = len(s)^3 * s.std()^2
SumSq(s) == SumSeq([i \in DOMAIN s |-> Centre(s)[i] * Centre(s)[i]])

\* A variant of the operator below: np.convolve(a, v, mode='full'), which
\* runs through v backwards
Correlate_convolve(a, v) ==
    [J \in 1..(Len(a) + Len(v) - 1) |->
        SumSeq([n \in 1..Len(v) |->
            IF J + 1 - n \in 1..Len(a)
            THEN a[J + 1 - n] * v[n] ELSE 0])]

\* np.correlate(a, v, mode='full'): entry J (1-based) is the lag J - Len(v)
Correlate(a, v) ==
    [J \in 1..(Len(a) + Len(v) - 1) |->
        SumSeq([n \in 1..Len(v) |->
            IF n + J - Len(v) \in 1..Len(a)
            THEN a[n + J - Len(v)] * v[n] ELSE 0])]

\* np.correlate(s1 - s1.mean(), s2 - s2.mean(), 'full') / (ndiv * s1.std() * s2.std()):
\* the k-th value is num[k] / (ndiv * sqrt(v1 * v2))
NormCorr(s1, s2, ndiv) ==
    LET raw == Correlate(Centre(s1), Centre(s2))
    IN  [num  |-> [k \in DOMAIN raw |-> raw[k] * Len(s1)],
         ndiv |-> ndiv, v1 |-> SumSq(s1), v2 |-> SumSq(s2)]

\* np.full(n, np.nan)
NanCurve(n) == [num |-> [k \in 1..n |-> 0], ndiv |-> 0, v1 |-> 0, v2 |-> 0]

CurveLen(c) == Len(c.num)
\* the divisor is 0 and so is every numerator: 0/0
CurveIsNan(c) == c.ndiv = 0 \/ c.v1 = 0 \/ c.v2 = 0

\* scipy _local_maxima_1d: the 0-based midpoints of the plateaus whose two
\* neighbours are strictly lower; the first and last samples are never peaks.
LocalMaxima(x) ==
    {m \in 0..(Len(x) - 1) :
        \E l \in 2..(Len(x) - 1) : \E r \in l..(Len(x) - 1) :
            /\ \A i \in l..r : x[i] = x[l]
            /\ x[l - 1] < x[l]
            /\ x[r + 1] < x[r]
            /\ m = ((l - 1) + (r - 1)) \div 2}

\* scipy peak_prominences (wlen = None) of the peak at 0-based index p
Prominence(x, p) ==
    LET pk == p + 1
        lb == IF \E i \in 1..pk : x[i] > x[pk]
              THEN CHOOSE i \in 1..pk : x[i] > x[pk] /\ \A j \in (i + 1)..pk : x[j] <= x[pk]
              ELSE 0
        rb == IF \E i \in pk..Len(x) : x[i] > x[pk]
              THEN CHOOSE i \in pk..Len(x) : x[i] > x[pk] /\ \A j \in pk..(i - 1) : x[j] <= x[pk]
              ELSE Len(x) + 1
        lmin == CHOOSE v \in {x[i] : i \in (lb + 1)..pk} : \A i \in (lb + 1)..pk : v <= x[i]
        rmin == CHOOSE v \in {x[i] : i \in pk..(rb - 1)} : \A i \in pk..(rb - 1) : v <= x[i]
    IN  x[pk] - (IF lmin > rmin THEN lmin ELSE rmin)

\* sig.find_peaks(curve): 0-based indices, ascending
FindPeaks(c) ==
    IF CurveIsNan(c) THEN <<>> ELSE SortedSeq(LocalMaxima(c.num))

\* sig.find_peaks(acf_curve, prominence = tn/td) on an autocorrelation curve
\* (v1 = v2, divisor ndiv * v1): the peaks of prominence >= tn/td
FindPeaksProm(c, tn, td) ==
    IF CurveIsNan(c) THEN <<>>
    ELSE SortedSeq({p \in LocalMaxima(c.num) :
            Prominence(c.num, p) * td >= tn * c.ndiv * c.v1})

(***************************************************************************)
(* Python containers.                                                      *)
(***************************************************************************)
\* range(n)
RangeSeq(n) == [i \in 1..n |-> i - 1]

\* s[a:b] on a sequence (0-based, end clamped to the length)
Slice(s, a, b) ==
    SubSeq(s, a + 1, IF b < Len(s) THEN b ELSE Len(s))

\* A dict is the sequence of its items <<key, value>> in insertion order.
DictKeys(d) == [i \in DOMAIN d |-> d[i][1]]
DictHas(d, k) == \E i \in DOMAIN d : d[i][1] = k
DictGet(d, k) == d[CHOOSE i \in DOMAIN d : d[i][1] = k][2]
\* d[k] = v: an existing key keeps its place
DictSet(d, k, v) ==
    IF DictHas(d, k)
    THEN [i \in DOMAIN d |-> IF d[i][1] = k THEN <<k, v>> ELSE d[i]]
    ELSE Append(d, <<k, v>>)

RECURSIVE DictUpdate(_, _)
DictUpdate(d, items) ==
    IF items = <<>> THEN d
    ELSE DictUpdate(DictSet(d, Head(items)[1], Head(items)[2]), Tail(items))

(***************************************************************************)
(* SignalProcessor (signal_processing_class.py).                           *)
(*                                                                         *)
(* An image is the record [num_frames, num_channels, box_means]:           *)
(* box_means[b + 1][c + 1] is the time series of box b, channel c.         *)
(***************************************************************************)
\* A variant of the constructor below that also counts the window ending at
\* the last frame
SignalProcessor_inclusive(image, roll, roll_size, roll_by) ==
    [num_frames    |-> image.num_frames,
     num_channels  |-> image.num_channels,
     num_boxes     |-> Len(image.box_means),
     box_means     |-> image.box_means,
     roll          |-> roll,
     roll_size     |-> roll_size,
     roll_by       |-> roll_by,
     num_subframes |-> IF roll THEN (image.num_frames - roll_size) \div roll_by + 1
                       ELSE None]

\* SignalProcessor.__init__: the fields the analysis reads
SignalProcessor(image, roll, roll_size, roll_by) ==
    [num_frames    |-> image.num_frames,
     num_channels  |-> image.num_channels,
     num_boxes     |-> Len(image.box_means),
     box_means     |-> image.box_means,
     roll          |-> roll,
     roll_size     |-> roll_size,
     roll_by       |-> roll_by,
     num_subframes |-> IF roll THEN (image.num_frames - roll_size) \div roll_by
                       ELSE None]

\* box_means[box_num, channel, roll_by*subframe : roll_size + roll_by*subframe]
SubframeSignal(p, box_num, channel, subframe) ==
    Slice(p.box_means[box_num + 1][channel + 1],
          p.roll_by * subframe, p.roll_size + p.roll_by * subframe)

\* A variant of the operator below that takes the largest distance of a peak
\* from the centre
ACFDelay_farthest(acf_curve, peaks, num_frames) ==
    LET nonzero == {Abs(peaks[i] - CurveLen(acf_curve) \div 2) : i \in DOMAIN peaks} \ {0}
    IN  IF Len(peaks) > 1
        THEN <<Num(CHOOSE m \in nonzero : \A x \in nonzero : m >= x), acf_curve>>
        ELSE <<NaN, NanCurve(num_frames * 2 - 1)>>

\* delay = np.min(peaks_abs[np.nonzero(peaks_abs)]) if len(peaks) > 1, else NaN
\* and a curve of NaN
ACFDelay(acf_curve, peaks, num_frames) ==
    LET nonzero == {Abs(peaks[i] - CurveLen(acf_curve) \div 2) : i \in DOMAIN peaks} \ {0}
    IN  IF Len(peaks) > 1
        THEN <<Num(CHOOSE m \in nonzero : \A x \in nonzero : m <= x), acf_curve>>
        ELSE <<NaN, NanCurve(num_frames * 2 - 1)>>

ACFOfCurve(acf_curve, num_frames, tn, td) ==
    ACFDelay(acf_curve, FindPeaksProm(acf_curve, tn, td), num_frames)

\* One box of calc_ACF: the (delay, acf_curve) stored for `signal`
ACFOfSignal(signal, ndiv, num_frames, tn, td) ==
    ACFOfCurve(NormCorr(signal, signal, ndiv), num_frames, tn, td)

\* calc_ACF(peak_thresh = tn/td): acf_results after the call
calc_ACF(p, results, tn, td) ==
    IF ~p.roll
    THEN LET B == p.num_boxes
             items == [t \in 1..(p.num_channels * B) |->
                 LET channel == (t - 1) \div B
                     box_num == (t - 1) % B
                 IN  <<[ch |-> channel + 1, box |-> box_num],
                       ACFOfSignal(p.box_means[box_num + 1][channel + 1],
                                   p.num_frames, p.num_frames, tn, td)>>]
         IN  DictUpdate(results, items)
    ELSE LET B == p.num_boxes
             S == IF p.num_subframes > 0 THEN p.num_subframes ELSE 0
             items == [t \in 1..(p.num_channels * B * S) |->
                 LET channel  == (t - 1) \div (B * S)
                     box_num  == ((t - 1) \div S) % B
                     subframe == (t - 1) % S
                 IN  <<[ch |-> channel + 1, box |-> box_num, sub |-> subframe],
                       ACFOfSignal(SubframeSignal(p, box_num, channel, subframe),
                                   p.roll_size, p.num_frames, tn, td)>>]
         IN  DictUpdate(results, items)

\* A variant of CCFDelay that takes the last of the peaks nearest the centre
CCFDelay_last(cc_curve, peaks) ==
    IF Len(peaks) = 0
    THEN [exc |-> "ValueError"]
    ELSE LET mid == CurveLen(cc_curve) \div 2
             argmin == CHOOSE i \in DOMAIN peaks :
                        /\ \A j \in DOMAIN peaks : Abs(peaks[i] - mid) <= Abs(peaks[j] - mid)
                        /\ \A j \in (i + 1)..Len(peaks) : Abs(peaks[j] - mid) > Abs(peaks[i] - mid)
         IN  [exc |-> "none", val |-> <<Num(peaks[argmin] - mid), cc_curve>>]

\* A variant of the operator below that takes the first peak of the curve
CCFDelay_first(cc_curve, peaks) ==
    IF Len(peaks) = 0
    THEN [exc |-> "ValueError"]
    ELSE [exc |-> "none",
          val |-> <<Num(peaks[1] - CurveLen(cc_curve) \div 2), cc_curve>>]

\* delay_index = peaks[np.argmin(peaks_abs)]; np.argmin of an empty array raises
\* ValueError, and of equal distances takes the first
CCFDelay(cc_curve, peaks) ==
    IF Len(peaks) = 0
    THEN [exc |-> "ValueError"]
    ELSE LET mid == CurveLen(cc_curve) \div 2
             argmin == CHOOSE i \in DOMAIN peaks :
                        /\ \A j \in DOMAIN peaks : Abs(peaks[i] - mid) <= Abs(peaks[j] - mid)
                        /\ \A j \in 1..(i - 1) : Abs(peaks[j] - mid) > Abs(peaks[i] - mid)
         IN  [exc |-> "none", val |-> <<Num(peaks[argmin] - mid), cc_curve>>]

CCFOfCurve(cc_curve) == CCFDelay(cc_curve, FindPeaks(cc_curve))

\* A variant of the operator below that correlates the two series in the
\* other order
CCFOfSignals_swapped(signal_1, signal_2, ndiv) ==
    CCFOfCurve(NormCorr(signal_2, signal_1, ndiv))

\* One box of calc_CCF: signal_1 is channel index 1, signal_2 channel index 0.
CCFOfSignals(signal_1, signal_2, ndiv) ==
    CCFOfCurve(NormCorr(signal_1, signal_2, ndiv))

\* The loop of calc_CCF over `todo`, a sequence of <<key, outcome>>: items are
\* stored until the first one that raises.
RECURSIVE StoreUntilRaise(_, _)
StoreUntilRaise(results, todo) ==
    IF todo = <<>> THEN [res |-> results, exc |-> "none"]
    ELSE IF Head(todo)[2].exc # "none"
         THEN [res |-> results, exc |-> Head(todo)[2].exc]
         ELSE StoreUntilRaise(DictSet(results, Head(todo)[1], Head(todo)[2].val),
                              Tail(todo))

\* calc_CCF(): [res |-> ccf_results after the call, exc |-> the exception raised]
calc_CCF(p, results) ==
    IF p.num_channels # 2
    THEN [res |-> results, exc |-> "AssertionError"]
    ELSE IF ~p.roll
    THEN StoreUntilRaise(results,
            [t \in 1..p.num_boxes |->
                <<[box |-> t - 1],
                  CCFOfSignals(p.box_means[t][2], p.box_means[t][1], p.num_frames)>>])
    ELSE LET B == p.num_boxes
             S == IF p.num_subframes > 0 THEN p.num_subframes ELSE 0
         IN  StoreUntilRaise(results,
                [t \in 1..(S * B) |->
                    LET subframe == (t - 1) \div B
                        box_num  == (t - 1) % B
                    IN  <<[box |-> box_num, sub |-> subframe],
                          CCFOfSignals(SubframeSignal(p, box_num, 1, subframe),
                                       SubframeSignal(p, box_num, 0, subframe),
                                       p.num_frames)>>])

(***************************************************************************)
(* calc_peaks.  sig.savgol_filter(x, window_length = 11, polyorder = 2)    *)
(* is a linear map with rational weights of common denominator 2145: an    *)
(* interior sample is the 11-point quadratic convolution, and the first    *)
(* and last five samples are read off the quadratic fitted to the first    *)
(* and last 11 samples (mode = 'interp').  The smoothed series is kept     *)
(* multiplied by SavgolDen.                                                *)
(***************************************************************************)
SavgolWindow == 11
SavgolDen == 2145

\* SavgolDen * (row r of the least-squares projection onto quadratics over 11
\* points), r = 0..5; row 5 is the convolution kernel, rows 6..10 mirror 4..0
SavgolRows ==
    << <<1245, 810, 450, 165, -45, -180, -240, -225, -135, 30, 270>>,
       <<810, 597, 414, 261, 138, 45, -18, -51, -54, -27, 30>>,
       <<450, 414, 373, 327, 276, 220, 159, 93, 22, -54, -135>>,
       <<165, 261, 327, 363, 369, 345, 291, 207, 93, -51, -225>>,
       <<-45, 138, 276, 369, 417, 420, 378, 291, 159, -18, -240>>,
       <<-180, 45, 220, 345, 420, 445, 420, 345, 220, 45, -180>> >>

SavgolWeight(r, j) ==
    IF r <= 5 THEN SavgolRows[r + 1][j + 1]
    ELSE SavgolRows[(10 - r) + 1][(10 - j) + 1]

\* SavgolDen * savgol_filter(x, 11, 2), for Len(x) >= 11
SavgolFilter(x) ==
    LET n == Len(x)
        h == SavgolWindow \div 2
    IN  [i \in 1..n |->
            LET start == IF i <= h THEN 0
                         ELSE IF i > n - h THEN n - SavgolWindow
                         ELSE i - 1 - h
                row   == (i - 1) - start
            IN  SumSeq([j \in 1..SavgolWindow |->
                    SavgolWeight(row, j - 1) * x[start + j]])]

SeqMax(x) == CHOOSE v \in Range(x) : \A w \in Range(x) : w <= v
SeqMin(x) == CHOOSE v \in Range(x) : \A w \in Range(x) : v <= w

\* sig.find_peaks(signal, prominence = (max - min) * 0.1): 0-based, ascending
FindPeaksRange(x) ==
    SortedSeq({p \in LocalMaxima(x) :
        10 * Prominence(x, p) >= SeqMax(x) - SeqMin(x)})

\* scipy peak_prominences' left and right bases of the peak at 0-based p
\* (1-based positions): the lowest sample between the peak and the nearest
\* higher sample on that side, the one nearest the peak on ties
LeftBase(x, p) ==
    LET pk == p + 1
        lb == IF \E i \in 1..pk : x[i] > x[pk]
              THEN CHOOSE i \in 1..pk : x[i] > x[pk] /\ \A j \in (i + 1)..pk : x[j] <= x[pk]
              ELSE 0
    IN  CHOOSE i \in (lb + 1)..pk :
            /\ \A j \in (lb + 1)..pk : x[i] <= x[j]
            /\ \A j \in (i + 1)..pk : x[j] > x[i]

RightBase(x, p) ==
    LET pk == p + 1
        rb == IF \E i \in pk..Len(x) : x[i] > x[pk]
              THEN CHOOSE i \in pk..Len(x) : x[i] > x[pk] /\ \A j \in pk..(i - 1) : x[j] <= x[pk]
              ELSE Len(x) + 1
    IN  CHOOSE i \in pk..(rb - 1) :
            /\ \A j \in pk..(rb - 1) : x[i] <= x[j]
            /\ \A j \in pk..(i - 1) : x[j] > x[i]

\* The distance between the linearly interpolated crossings of half the
\* height h2 on the left (at or after li) and on the right (at or before ri)
WidthBetween(x, h2, li, ri) ==
    LET left_ip  == IF 2 * x[li] < h2
                    THEN FracAdd(<<li, 1>>, Frac(h2 - 2 * x[li], 2 * (x[li + 1] - x[li])))
                    ELSE <<li, 1>>
        right_ip == IF 2 * x[ri] < h2
                    THEN FracSub(<<ri, 1>>, Frac(h2 - 2 * x[ri], 2 * (x[ri - 1] - x[ri])))
                    ELSE <<ri, 1>>
    IN  FracSub(right_ip, left_ip)

\* The walk from the peak pk down to twice-height h2, stopping at the bases
WidthAt(x, pk, h2, lbase, rbase) ==
    WidthBetween(x, h2,
        CHOOSE i \in lbase..pk :
            /\ (i = lbase \/ h2 >= 2 * x[i])
            /\ \A j \in (i + 1)..pk : h2 < 2 * x[j],
        CHOOSE i \in pk..rbase :
            /\ (i = rbase \/ h2 >= 2 * x[i])
            /\ \A j \in pk..(i - 1) : h2 < 2 * x[j])

\* sig.peak_widths(signal, peaks, rel_height = 0.5)[0] for the peak at 0-based
\* p, as a rational number of samples; the evaluation height is
\* x[peak] - prominence / 2
PeakWidth(x, p) ==
    WidthAt(x, p + 1, 2 * x[p + 1] - Prominence(x, p), LeftBase(x, p), RightBase(x, p))

\* the sum of a sequence of rationals, added up by halves
RECURSIVE FracSum(_)
FracSum(s) ==
    IF Len(s) = 0 THEN <<0, 1>>
    ELSE IF Len(s) = 1 THEN s[1]
    ELSE FracAdd(FracSum(SubSeq(s, 1, Len(s) \div 2)),
                 FracSum(SubSeq(s, (Len(s) \div 2) + 1, Len(s))))

\* np.mean of a non-empty sequence of rationals
FracMean(s) == FracDiv(FracSum(s), Num(Len(s)))

NanTuple == <<NaN, NaN, NaN, NaN, NaN>>

\* mean_amp = mean_max - mean_min and mean_rel_amp = mean_amp / mean_min (a
\* float division: by zero it gives inf)
PeakTuple(mean_width, mean_max, mean_min) ==
    <<mean_width, mean_max, mean_min, FracSub(mean_max, mean_min),
      IF mean_min[1] = 0 THEN Inf ELSE FracDiv(FracSub(mean_max, mean_min), mean_min)>>

\* A variant of the operator below that stores zeros, not NaN, for a signal
\* without peaks
PeakMeans_zeros(signal, peaks) ==
    IF Len(peaks) > 0
    THEN PeakTuple(
            FracMean([i \in DOMAIN peaks |-> PeakWidth(signal, peaks[i])]),
            FracMean([i \in DOMAIN peaks |-> Frac(signal[peaks[i] + 1], SavgolDen)]),
            FracMean([i \in DOMAIN peaks |->
                Frac(signal[peaks[i] + 1] - Prominence(signal, peaks[i]), SavgolDen)]))
    ELSE <<Num(0), Num(0), Num(0), Num(0), Num(0)>>

\* The five values calc_peaks stores for a smoothed signal with the given peaks
PeakMeans(signal, peaks) ==
    IF Len(peaks) > 0
    THEN PeakTuple(
            FracMean([i \in DOMAIN peaks |-> PeakWidth(signal, peaks[i])]),
            FracMean([i \in DOMAIN peaks |-> Frac(signal[peaks[i] + 1], SavgolDen)]),
            FracMean([i \in DOMAIN peaks |->
                Frac(signal[peaks[i] + 1] - Prominence(signal, peaks[i]), SavgolDen)]))
    ELSE NanTuple

PeaksOfSmoothed(signal) == PeakMeans(signal, FindPeaksRange(signal))

\* One box of calc_peaks: the tuple (mean_width, mean_max, mean_min, mean_amp,
\* mean_rel_amp) stored for `series`; savgol_filter raises ValueError when the
\* series is shorter than the window.
PeaksOfSignal(series) ==
    IF Len(series) < SavgolWindow THEN [exc |-> "ValueError"]
    ELSE [exc |-> "none", val |-> PeaksOfSmoothed(SavgolFilter(series))]

\* calc_peaks(): [res |-> peak_results after the call, exc |-> the exception raised]
calc_peaks(p, results) ==
    IF ~p.roll
    THEN LET B == p.num_boxes
         IN  StoreUntilRaise(results,
                [t \in 1..(p.num_channels * B) |->
                    LET channel == (t - 1) \div B
                        box_num == (t - 1) % B
                    IN  <<[ch |-> channel + 1, box |-> box_num],
                          PeaksOfSignal(p.box_means[box_num + 1][channel + 1])>>])
    ELSE LET B == p.num_boxes
             C == p.num_channels
             S == IF p.num_subframes > 0 THEN p.num_subframes ELSE 0
         IN  StoreUntilRaise(results,
                [t \in 1..(S * C * B) |->
                    LET subframe == (t - 1) \div (C * B)
                        channel  == ((t - 1) \div B) % C
                        box_num  == (t - 1) % B
                    IN  <<[ch |-> channel + 1, box |-> box_num, sub |-> subframe],
                          PeaksOfSignal(SubframeSignal(p, box_num, channel, subframe))>>])

(***************************************************************************)
(* Aggregation: numpy's NaN-skipping reducers, add_stats and               *)
(* summarize_results.  A standard deviation is the record [sq |-> q],      *)
(* standing for sqrt(q), so that it stays exact.                           *)
(***************************************************************************)
IsNotNan(v) == v # NaN
NonNan(s) == SelectSeq(s, IsNotNan)

\* a < b on rationals extended with +inf
ExtLess(a, b) == IF a = Inf THEN FALSE ELSE IF b = Inf THEN TRUE ELSE FracLess(a, b)

\* the values of s in ascending order
RECURSIVE SortFracs(_)
SortFracs(s) ==
    IF s = <<>> THEN <<>>
    ELSE LET i == CHOOSE i \in DOMAIN s : \A j \in DOMAIN s : ~ExtLess(s[j], s[i])
         IN  <<s[i]>> \o SortFracs(SubSeq(s, 1, i - 1) \o SubSeq(s, i + 1, Len(s)))

\* np.nanmean
nanmean(s) ==
    IF NonNan(s) = <<>> THEN NaN
    ELSE IF Inf \in Range(s) THEN Inf
    ELSE FracMean(NonNan(s))

\* the median of a sorted sequence without NaN
MedianOfSorted(vals) ==
    IF Len(vals) = 0 THEN NaN
    ELSE IF Len(vals) % 2 = 1 THEN vals[(Len(vals) + 1) \div 2]
    ELSE IF vals[Len(vals) \div 2 + 1] = Inf
         THEN Inf
         ELSE FracMean(<<vals[Len(vals) \div 2], vals[Len(vals) \div 2 + 1]>>)

\* np.nanmedian
nanmedian(s) == MedianOfSorted(SortFracs(NonNan(s)))

\* d * d for a rational d
FracSq(d) == Frac(d[1] * d[1], d[2] * d[2])

\* the mean of the squared distances of vals from mu
MeanSqDev(vals, mu) ==
    FracMean([i \in DOMAIN vals |-> FracSq(FracSub(vals[i], mu))])

\* the population variance of the non-NaN values: np.nanstd(s) ** 2
nanvar(s) ==
    IF NonNan(s) = <<>> \/ Inf \in Range(s) THEN NaN
    ELSE MeanSqDev(NonNan(s), FracMean(NonNan(s)))

\* np.nanstd
nanstd(s) == [sq |-> nanvar(s)]

\* std / np.sqrt(n)
StdOverSqrt(std, n) ==
    [sq |-> IF std.sq = NaN \/ n = 0 THEN NaN ELSE FracDiv(std.sq, Num(n))]

\* add_stats(measurements, measurement_name)
add_stats(measurements, measurement_name) ==
    LET meas_mean   == nanmean(measurements)
        meas_median == nanmedian(measurements)
        meas_std    == nanstd(measurements)
        meas_sem    == StdOverSqrt(meas_std, Len(measurements))
    IN  <<measurement_name, meas_mean, meas_median, meas_std, meas_sem>> \o measurements

\* [value[k - 1] for key, value in results.items() if 'Ch<ch>' in key]
ChannelValues(results, ch, k) ==
    LET mine == SelectSeq(results, LAMBDA it : it[1].ch = ch)
    IN  [i \in DOMAIN mine |-> mine[i][2][k]]

\* [value[0] for key, value in ccf_results.items()]
ShiftValues(results) == [i \in DOMAIN results |-> results[i][2][1]]

\* A variant of the operator below that gives the share of the bins with a
\* period
PcntNoPeriod_detected(num_boxes, period_measurements) ==
    Frac(Len(NonNan(period_measurements)) * 100, num_boxes)

\* ((num_boxes - len([x for x in periods if not isnan(x)])) / num_boxes) * 100
PcntNoPeriod(num_boxes, period_measurements) ==
    Frac((num_boxes - Len(NonNan(period_measurements))) * 100, num_boxes)

\* The four summary entries '<prefix>Mean <what>', ... computed from `data`
StatEntries(prefix, what, data) ==
    << <<prefix \o "Mean " \o what, nanmean(data)>>,
       <<prefix \o "Median " \o what, nanmedian(data)>>,
       <<prefix \o "StdDev " \o what, nanstd(data)>>,
       <<prefix \o "SEM " \o what, StdOverSqrt(nanstd(data), Len(data))>> >>

\* A variant of the operator below that takes the statistics of
\* measurements[6:]
SummaryStats_later(prefix, what, measurements) ==
    StatEntries(prefix, what, SubSeq(measurements, 7, Len(measurements)))

\* The summary entries of a list returned by add_stats: the statistics of
\* measurements[5:]
SummaryStats(prefix, what, measurements) ==
    StatEntries(prefix, what, SubSeq(measurements, 6, Len(measurements)))

\* The rows and summary entries that summarize_results derives from the
\* peak_results of channel ch
PeakRows(peaks, ch, name) ==
    << add_stats(ChannelValues(peaks, ch, 4), name \o " Amplitude"),
       add_stats(ChannelValues(peaks, ch, 1), name \o " Width"),
       add_stats(ChannelValues(peaks, ch, 2), name \o " Max"),
       add_stats(ChannelValues(peaks, ch, 3), name \o " Min"),
       add_stats(ChannelValues(peaks, ch, 5), name \o " Relative Amplitude") >>

PeakSummary(rows, name) ==
    SummaryStats(name \o " ", "Width", rows[2]) \o SummaryStats(name \o " ", "Max", rows[3])
    \o SummaryStats(name \o " ", "Min", rows[4]) \o SummaryStats(name \o " ", "Amp", rows[1])
    \o SummaryStats(name \o " ", "RelAmp", rows[5])

\* The lists summarize_results keeps on self: each is an add_stats result
StatLists(acf, ccf, peaks) ==
    [ch1_period |-> add_stats(ChannelValues(acf, 1, 1), "Ch1 Period"),
     ch2_period |-> add_stats(ChannelValues(acf, 2, 1), "Ch2 Period"),
     shift      |-> add_stats(ShiftValues(ccf), "Shift"),
     ch1_peaks  |-> PeakRows(peaks, 1, "Ch1"),
     ch2_peaks  |-> PeakRows(peaks, 2, "Ch2")]

\* statified: the rows handed to pd.DataFrame
MeasurementRows(p, st, acf, ccf, peaks) ==
    (IF Len(acf) > 0
     THEN <<st.ch1_period>> \o (IF p.num_channels = 2 THEN <<st.ch2_period>> ELSE <<>>)
     ELSE <<>>)
    \o (IF Len(ccf) > 0 THEN <<st.shift>> ELSE <<>>)
    \o (IF Len(peaks) > 0
        THEN st.ch1_peaks \o (IF p.num_channels = 2 THEN st.ch2_peaks ELSE <<>>)
        ELSE <<>>)

\* file_data_summary
FileDataSummary(p, st, acf, ccf, peaks, fname, gname) ==
    (IF fname # <<>> /\ fname # NoneStr
     THEN << <<"File Name", fname>> >> ELSE <<>>)
    \o (IF gname # <<>> /\ gname # NoneStr
        THEN << <<"Group Name", gname>> >> ELSE <<>>)
    \o << <<"Num Boxes", Num(p.num_boxes)>> >>
    \o (IF Len(acf) > 0
        THEN << <<"Ch1 % Zero Boxes",
                  PcntNoPeriod(p.num_boxes, ChannelValues(acf, 1, 1))>> >>
             \o SummaryStats("Ch1 ", "Period", st.ch1_period)
        ELSE <<>>)
    \o (IF Len(acf) > 0 /\ p.num_channels = 2
        THEN << <<"Ch2 % Zero Boxes",
                  PcntNoPeriod(p.num_boxes, ChannelValues(acf, 2, 1))>> >>
             \o SummaryStats("Ch2 ", "Period", st.ch2_period)
        ELSE <<>>)
    \o (IF Len(ccf) > 0 THEN SummaryStats("", "Shift", st.shift) ELSE <<>>)
    \o (IF Len(peaks) > 0 THEN PeakSummary(st.ch1_peaks, "Ch1") ELSE <<>>)
    \o (IF Len(peaks) > 0 /\ p.num_channels = 2
        THEN PeakSummary(st.ch2_peaks, "Ch2") ELSE <<>>)

\* pd.DataFrame(rows, columns = col_names) needs 5 + num_boxes values per row
Summarized(p, rows, summary) ==
    IF \E i \in DOMAIN rows : Len(rows[i]) # 5 + p.num_boxes
    THEN [exc |-> "ValueError"]
    ELSE [exc |-> "none", measurements |-> rows, summary |-> summary]

SummarizeLists(p, st, acf, ccf, peaks, fname, gname) ==
    Summarized(p, MeasurementRows(p, st, acf, ccf, peaks),
               FileDataSummary(p, st, acf, ccf, peaks, fname, gname))

\* summarize_results(file_name = fname, group_name = gname):
\* [exc, measurements |-> the rows of im_measurements, summary |-> file_data_summary]
summarize_results(p, acf, ccf, peaks, fname, gname) ==
    SummarizeLists(p, StatLists(acf, ccf, peaks), acf, ccf, peaks, fname, gname)

(***************************************************************************)
(* summarize_rolling_results.  The keys of the rolling results are texts   *)
(* such as 'Ch1_ACF_box0_subframe1_'; the method finds the measurements of *)
(* a window by looking for f'subframe{sub_frame}_' in the key.             *)
(***************************************************************************)
\* str(n) of a non-negative integer: its decimal digits
RECURSIVE str(_)
str(n) ==
    LET digit == <<"0", "1", "2", "3", "4", "5", "6", "7", "8", "9">>[(n % 10) + 1]
    IN  IF n < 10 THEN <<digit>> ELSE str(n \div 10) \o <<digit>>

\* The text of a key of rolling results: f'Ch{ch}_ACF_box{box}_subframe{sub}_'
\* in acf_results, f'CCF_box{box}_subframe{sub}_' in ccf_results and
\* f'Ch{ch}_box{box}_subframe{sub}_' in peak_results
KeyText(kind, key) ==
    (IF kind = "CCF" THEN <<>> ELSE <<"C", "h">> \o str(key.ch) \o <<"_">>)
    \o (CASE kind = "ACF" -> <<"A", "C", "F", "_">>
          [] kind = "CCF" -> <<"C", "C", "F", "_">>
          [] kind = "peaks" -> <<>>)
    \o <<"b", "o", "x">> \o str(key.box)
    \o <<"_", "s", "u", "b", "f", "r", "a", "m", "e">> \o str(key.sub) \o <<"_">>

\* A variant of the operator below that looks for f'subframe{sub_frame}' in
\* the key
SubframeValues_prefix(kind, results, sub_frame, ch, k) ==
    LET tag  == <<"s", "u", "b", "f", "r", "a", "m", "e">> \o str(sub_frame)
        chan == IF ch = 0 THEN <<>> ELSE <<"C", "h">> \o str(ch)
        mine == SelectSeq(results, LAMBDA it :
                    StrIn(tag, KeyText(kind, it[1])) /\ StrIn(chan, KeyText(kind, it[1])))
    IN  [i \in DOMAIN mine |-> mine[i][2][k]]

\* [value[k - 1] for key, value in results.items()
\*  if f'subframe{sub_frame}_' in key and 'Ch<ch>' in key]; the shifts are
\* collected without a test of the channel (ch = 0)
SubframeValues(kind, results, sub_frame, ch, k) ==
    LET tag  == <<"s", "u", "b", "f", "r", "a", "m", "e">> \o str(sub_frame) \o <<"_">>
        chan == IF ch = 0 THEN <<>> ELSE <<"C", "h">> \o str(ch)
        mine == SelectSeq(results, LAMBDA it :
                    StrIn(tag, KeyText(kind, it[1])) /\ StrIn(chan, KeyText(kind, it[1])))
    IN  [i \in DOMAIN mine |-> mine[i][2][k]]

\* summarize_rolling_results(): [exc, measurements |-> the rows of the data
\* frame of each window, summary |-> the row of file_data_summary of each
\* window]
summarize_rolling_results(p, acf, ccf, peaks) ==
    LET S == IF p.num_subframes > 0 THEN p.num_subframes ELSE 0
        chans == IF p.num_channels = 2 THEN <<1, 2>> ELSE <<1>>
        Ch(c) == IF c = 1 THEN "Ch1" ELSE "Ch2"
        props == <<"Width", "Max", "Min", "Amp", "RelAmp">>
        periods(w, c) == SubframeValues("ACF", acf, w, c, 1)
        shifts(w) == SubframeValues("CCF", ccf, w, 0, 1)
        prop(w, c, k) == SubframeValues("peaks", peaks, w, c, k)
        rows(w) ==
            (IF Len(acf) > 0
             THEN [c \in DOMAIN chans |-> add_stats(periods(w, c), Ch(c) \o " Period")]
             ELSE <<>>)
            \o (IF Len(ccf) > 0 THEN <<add_stats(shifts(w), "Shift")>> ELSE <<>>)
            \o (IF Len(peaks) > 0
                THEN [t \in 1..(5 * Len(chans)) |->
                        add_stats(prop(w, ((t - 1) \div 5) + 1, ((t - 1) % 5) + 1),
                                  Ch(((t - 1) \div 5) + 1) \o " " \o props[((t - 1) % 5) + 1])]
                ELSE <<>>)
        period_summary(w, c) ==
            StatEntries(Ch(c) \o " ", "Period", periods(w, c))
            \o << <<Ch(c) \o " Pcnt Zero Period", PcntNoPeriod(p.num_boxes, periods(w, c))>> >>
        shift_summary(w) ==
            << <<"Shift Mean", nanmean(shifts(w))>>,
               <<"Shift Median", nanmedian(shifts(w))>>,
               <<"Shift StdDev", nanstd(shifts(w))>>,
               <<"Shift SEM", StdOverSqrt(nanstd(shifts(w)), Len(shifts(w)))>> >>
        peak_summary(w, c) ==
            StatEntries(Ch(c) \o " ", "Width", prop(w, c, 1))
            \o StatEntries(Ch(c) \o " ", "Max", prop(w, c, 2))
            \o StatEntries(Ch(c) \o " ", "Min", prop(w, c, 3))
            \o StatEntries(Ch(c) \o " ", "Amp", prop(w, c, 4))
            \o StatEntries(Ch(c) \o " ", "RelAmp", prop(w, c, 5))
        summary(w) ==
            (IF Len(acf) > 0 \/ Len(ccf) > 0 \/ Len(peaks) > 0
             THEN << <<"Subframe", Num(w)>> >> ELSE <<>>)
            \o (IF Len(acf) > 0 THEN period_summary(w, 1) ELSE <<>>)
            \o (IF Len(acf) > 0 /\ p.num_channels = 2 THEN period_summary(w, 2) ELSE <<>>)
            \o (IF Len(ccf) > 0 THEN shift_summary(w) ELSE <<>>)
            \o (IF Len(peaks) > 0 THEN peak_summary(w, 1) ELSE <<>>)
            \o (IF Len(peaks) > 0 /\ p.num_channels = 2 THEN peak_summary(w, 2) ELSE <<>>)
        frames == [w \in 1..S |-> rows(w - 1)]
    IN  IF \E w \in 1..S : \E i \in DOMAIN frames[w] : Len(frames[w][i]) # 5 + p.num_boxes
        THEN [exc |-> "ValueError"]
        ELSE [exc |-> "none", measurements |-> frames,
              summary |-> [w \in 1..S |-> summary(w - 1)]]

(***************************************************************************)
(* The boxes of SignalProcessor.__init__, cut from the pixels.  An image   *)
(* given by its pixels is the record [y_dim, x_dim, px]: y_dim rows        *)
(* (shape[-2]), x_dim columns (shape[-1]), px[r + 1][c + 1] the value at   *)
(* row r, column c of its one frame and channel.                           *)
(***************************************************************************)
\* The pixels of image[:, 0, channel, x*bs : x*bs+bs, y*bs : y*bs+bs]: the
\* first slice runs over the rows, the second over the columns, and numpy
\* clips a slice to the axis.
Footprint(im, bs, x, y) ==
    {<<r, c>> \in (0..(im.y_dim - 1)) \X (0..(im.x_dim - 1)) :
        /\ x * bs <= r /\ r < x * bs + bs
        /\ y * bs <= c /\ c < y * bs + bs}

\* np.mean over a footprint: NaN over an empty one
FootprintMean(im, cells) ==
    IF cells = {} THEN NaN
    ELSE Frac(SumSeq([i \in 1..(im.y_dim * im.x_dim) |->
                  IF <<(i - 1) \div im.x_dim, (i - 1) % im.x_dim>> \in cells
                  THEN im.px[((i - 1) \div im.x_dim) + 1][((i - 1) % im.x_dim) + 1]
                  ELSE 0]),
              Cardinality(cells))

\* SignalProcessor.__init__ on pixels: the box counts, and for box number
\* x * y_boxes + y (the reshape of box_means) its footprint and its mean
BoxProcessor(im, bs) ==
    LET x_boxes == im.x_dim \div bs
        y_boxes == im.y_dim \div bs
    IN  [x_dim |-> im.x_dim, y_dim |-> im.y_dim, box_size |-> bs,
         x_boxes |-> x_boxes, y_boxes |-> y_boxes, num_boxes |-> x_boxes * y_boxes,
         footprints |-> [b \in 1..(x_boxes * y_boxes) |->
                            Footprint(im, bs, (b - 1) \div y_boxes, (b - 1) % y_boxes)],
         box_means  |-> [b \in 1..(x_boxes * y_boxes) |->
                            FootprintMean(im,
                                Footprint(im, bs, (b - 1) \div y_boxes, (b - 1) % y_boxes))]]

(***************************************************************************)
(* Inputs: time series and images.                                         *)
(***************************************************************************)
\* triangular wave of period P: 0, 1, .., P/2, .., 1, 0, ..
Tri(P, t) == IF (t % P) <= (P \div 2) THEN t % P ELSE P - (t % P)

\* the n-frame time series of each kind
Signal(kind, n) ==
    CASE kind = "flat"  -> [i \in 1..n |-> 1]
      [] kind = "tri4"  -> [i \in 1..n |-> Tri(4, i - 1)]
      [] kind = "tri4d" -> [i \in 1..n |-> Tri(4, i + 2)]     \* tri4 delayed by one frame
      [] kind = "tri4a" -> [i \in 1..n |-> Tri(4, i + 1)]     \* tri4 delayed by two frames
      [] kind = "tri6"  -> [i \in 1..n |-> Tri(6, i - 1)]
      [] kind = "tri6d" -> [i \in 1..n |-> Tri(6, i + 3)]     \* tri6 delayed by two frames
      [] kind = "ramp"  -> [i \in 1..n |-> i]

\* a box is a pair of kinds: channel 1, channel 2.  Channel 2 of a wave of
\* period 4 trails channel 1 by one frame, equals it, or leads it by one
\* frame, or is in antiphase; channel 2 of a wave of period 6 trails or leads
\* by two frames.
BoxKinds == { <<"tri4", "tri4d">>, <<"tri4", "tri4">>, <<"tri4d", "tri4">>,
              <<"tri4", "tri4a">>,
              <<"tri6", "tri6d">>, <<"tri6d", "tri6">>,
              <<"flat", "flat">>, <<"tri6", "ramp">> }

FrameCounts == {2, 12, 20}

\* the image with n frames, c channels and one box per element of boxes
Image(n, c, boxes) ==
    [num_frames   |-> n,
     num_channels |-> c,
     box_means    |-> [b \in DOMAIN boxes |-> [ch \in 1..c |-> Signal(boxes[b][ch], n)]]]

\* The layouts of boxes analysed: the waves of one image are of one kind, so
\* that the exact statistics over its boxes stay within 32-bit integers.
BoxLayouts ==
    {boxes \in UNION {[1..k -> BoxKinds] : k \in 1..MaxBoxes} :
        Cardinality(Range(boxes) \ {<<"flat", "flat">>}) <= 1}

ProcImages ==
    {Image(n, c, boxes) : n \in FrameCounts, c \in {1, 2}, boxes \in BoxLayouts}

\* (roll_size, roll_by) of a rolling analysis
RollConfigs == { <<10, 5>>, <<12, 3>>, <<20, 5>> }

\* Recordings of one box that a window of 11 frames advancing by one frame
\* cuts into 11 windows, numbered 0 to 10
LongImages ==
    {Image(22, c, <<kinds>>) : c \in {1, 2}, kinds \in BoxKinds}

\* peak_thresh as tn/td
PeakThresholds == {<<1, 10>>, <<1, 2>>}

\* the threshold typed into the GUI of a batch run
GuiThresholds == {<<1, 10>>}


(***************************************************************************)
(* The batch drivers: the group-name checks, the main loop over the files  *)
(* and the summary (signalProcessing2C.py and combined.py).                *)
(***************************************************************************)
LogKeys == {"Group Matching Errors", "Files Processed", "Files Not Processed"}

\* The lists of the log_params that combined_workflow is handed.  Its caller is
\* not part of the sources at hand: the specification has the reason for a
\* skipped comparison recorded in the run log, so the list that
\* generate_group_comparison appends to is there.
WorkflowLogKeys == LogKeys \cup {"Plotting errors"}

\* log_params[key].append(entry)
LogAppend(log, key, entry) == [log EXCEPT ![key] = Append(@, entry)]

\* fname.endswith('.tif') and not fname.startswith('.')
IsImageFile(fname) == EndsWith(fname, Ext) /\ ~StartsWith(fname, Dot)

\* [fname for fname in os.listdir(folder_path) if ...]
ListFiles(entries) == SelectSeq(entries, IsImageFile)

\* [group for group in group_names if group in file]
MatchingGroups(groups, file) == SelectSeq(groups, LAMBDA g : StrIn(g, file))

\* np.unique([group for group in group_names for file in file_names if group in file]):
\* the distinct labels that occur in some file name
GroupsFound(groups, files) ==
    {groups[i] : i \in {i \in DOMAIN groups : \E j \in DOMAIN files : StrIn(groups[i], files[j])}}

\* A variant of the test below that lets two matches pass
IsAmbiguous_two(matching_groups) == Len(matching_groups) > 2

\* elif len(matching_groups) > 1
IsAmbiguous(matching_groups) == Len(matching_groups) > 1

\* A variant of the test below that fires only when no label was found at all
GroupsMissing_none(groups_found, groups) == Cardinality(groups_found) = 0 /\ Len(groups) # 0

\* if len(groups_found) != len(group_names)
GroupsMissing(groups_found, groups) == Cardinality(groups_found) # Len(groups)

\* The position in files at which the loop over uniqueDic calls sys.exit(), or
\* Len(files) + 1 when it runs to its end
FirstAmbiguous(groups, files) ==
    LET bad == {i \in DOMAIN files : IsAmbiguous(MatchingGroups(groups, files[i]))}
    IN  IF bad = {} THEN Len(files) + 1 ELSE CHOOSE i \in bad : \A j \in bad : i <= j

\* The entries the loop over uniqueDic appends to "Group Matching Errors" before
\* position stop
Mismatches(groups, files, stop) ==
    LET unmatched == SelectSeq(SubSeq(files, 1, stop - 1),
                               LAMBDA f : Len(MatchingGroups(groups, f)) = 0)
    IN  [i \in DOMAIN unmatched |-> <<unmatched[i], " was not matched to a group">>]

\* The error catching for group names: [files, log, exit]
GroupCheck(entries, groups, log) ==
    [files |-> ListFiles(entries),
     log   |-> [log EXCEPT !["Group Matching Errors"] =
                    @ \o Mismatches(groups, ListFiles(entries),
                                    FirstAmbiguous(groups, ListFiles(entries)))],
     exit  |-> \/ FirstAmbiguous(groups, ListFiles(entries)) <= Len(ListFiles(entries))
               \/ GroupsMissing(GroupsFound(groups, ListFiles(entries)), groups)]

\* gui.group_names when no group was typed in: ['']
NoGroups == << <<>> >>

\* TotalSignalProcessor(...) of combined.py.  The class is not part of the
\* sources at hand; its binning stage is taken from the specification, which
\* makes it fail on more than two channels.
TotalSignalProcessor(image) ==
    IF image.num_channels > 2
    THEN [exc |-> "ChannelCountError"]
    ELSE [exc |-> "none", p |-> SignalProcessor(image, FALSE, 0, 0)]

\* The processor the driver d constructs for an image
Construct(d, image) ==
    IF d = "combined" THEN TotalSignalProcessor(image)
    ELSE [exc |-> "none", p |-> SignalProcessor(image, FALSE, 0, 0)]

\* The reason for which the driver d skips the file of processor p, or "none"
SkipReason(d, p) ==
    IF p.num_frames < 2 THEN " has less than 2 frames"
    ELSE IF d = "script" /\ p.num_channels > 2 THEN " has more than 2 channels"
    ELSE "none"

\* The group matched for the file: [exc, group].  The script indexes the list
\* of matches, combined.py catches the IndexError and keeps None.
AssignGroup(d, groups, file_name, current) ==
    IF d = "combined"
    THEN [exc |-> "none",
          group |-> IF groups # NoGroups /\ MatchingGroups(groups, RSplitDot(file_name)) # <<>>
                    THEN MatchingGroups(groups, RSplitDot(file_name))[1]
                    ELSE NoneStr]
    ELSE IF groups = NoGroups THEN [exc |-> "none", group |-> current]
    ELSE IF MatchingGroups(groups, RSplitDot(file_name)) = <<>>
         THEN [exc |-> "IndexError", group |-> current]
         ELSE [exc |-> "none", group |-> MatchingGroups(groups, RSplitDot(file_name))[1]]

\* The loop body up to the analysis, once the file is not skipped: the file is
\* logged as processed and its group g = [exc, group] assigned
Started(log, file_name, g) ==
    [pc     |-> IF g.exc = "none" THEN "acf" ELSE "raised",
     raised |-> g.exc,
     log    |-> LogAppend(log, "Files Processed", file_name),
     group  |-> g.group]

\* The loop body up to the analysis for the file file_name, whose processor
\* is made = [exc, p]: [pc, raised, log, group]
FileOutcome(d, groups, file_name, made, current, log) ==
    IF made.exc # "none"
    THEN [pc |-> "raised", raised |-> made.exc, log |-> log, group |-> current]
    ELSE IF SkipReason(d, made.p) # "none"
    THEN [pc |-> "loop", raised |-> "none",
          log |-> LogAppend(log, "Files Not Processed", <<file_name, SkipReason(d, made.p)>>),
          group |-> current]
    ELSE Started(log, file_name, AssignGroup(d, groups, file_name, current))

\* The methods of TotalSignalProcessor that combined.py calls.  The class is
\* not part of the sources at hand: the specification describes the analysis
\* of SignalProcessor, except that a cross-correlation curve without a peak
\* gives a NaN shift instead of an error.
calc_indv_ACFs(p, results, tn, td) == calc_ACF(p, results, tn, td)

calc_indv_peak_props(p, results) == calc_peaks(p, results)

NanIfNoPeak(r, n) ==
    IF r.exc = "none" THEN r ELSE [exc |-> "none", val |-> <<NaN, NanCurve(2 * n - 1)>>]

calc_indv_CCFs(p, results) ==
    StoreUntilRaise(results,
        [t \in 1..p.num_boxes |->
            <<[box |-> t - 1],
              NanIfNoPeak(CCFOfSignals(p.box_means[t][2], p.box_means[t][1], p.num_frames),
                          p.num_frames)>>])

summarize_image(p, acf, ccf, peaks, file_name, gname) ==
    summarize_results(p, acf, ccf, peaks, file_name, gname)

\* The analysis calls as the driver d makes them ("none": a direct caller of
\* SignalProcessor)
RunACF(d, p, results, tn, td) ==
    IF d = "combined" THEN calc_indv_ACFs(p, results, tn, td) ELSE calc_ACF(p, results, tn, td)

RunCCF(d, p, results) ==
    IF d = "combined" THEN calc_indv_CCFs(p, results) ELSE calc_CCF(p, results)

RunPeaks(d, p, results) ==
    IF d = "combined" THEN calc_indv_peak_props(p, results) ELSE calc_peaks(p, results)

RunSummary(d, p, acf, ccf, peaks, file_name, gname) ==
    IF d = "combined" THEN summarize_image(p, acf, ccf, peaks, file_name, gname)
    ELSE summarize_results(p, acf, ccf, peaks, NoneStr, NoneStr)

\* A variant of the operator below in which combined.py summarizes the image
\* right after the autocorrelations
AfterStage_hasty(d, stage, p) ==
    CASE stage = "acf" ->
            IF d = "combined" THEN "summarize"
            ELSE IF p.num_channels = 2 THEN "ccf" ELSE "peaks"
      [] stage = "ccf" -> "peaks"
      [] stage = "peaks" -> IF p.roll THEN "summarize_rolling" ELSE "summarize"
      [] stage = "summarize" -> IF d = "none" THEN "done" ELSE "loop"

\* The control point after a stage of the analysis of one image.  The script
\* runs calc_ACF, calc_CCF (two channels), calc_peaks, summarize_results;
\* combined.py runs the peak properties before the cross-correlations; a
\* rolling analysis ends with summarize_rolling_results.
AfterStage(d, stage, p) ==
    CASE stage = "acf" ->
            IF d = "combined" THEN "peaks"
            ELSE IF p.num_channels = 2 THEN "ccf" ELSE "peaks"
      [] stage = "ccf" ->
            IF d = "combined" THEN "summarize" ELSE "peaks"
      [] stage = "peaks" ->
            IF d = "combined" THEN (IF p.num_channels > 1 THEN "ccf" ELSE "summarize")
            ELSE IF p.roll THEN "summarize_rolling" ELSE "summarize"
      [] stage = "summarize" ->
            IF d = "none" THEN "done" ELSE "loop"

\* for key in im_summary_dict.keys(): if key not in col_headers: col_headers.append(key)
\* (the keys of a dict are distinct, so each new key is appended once, in order)
ExtendHeaders(headers, keys) ==
    headers \o SelectSeq(keys, LAMBDA key : key \notin Range(headers))

\* ord() of the characters that occur in the file names
Ord(c) == CASE c = "." -> 46 [] c = "a" -> 97 [] c = "b" -> 98 [] c = "c" -> 99
            [] c = "f" -> 102 [] c = "i" -> 105 [] c = "t" -> 116 [] c = "x" -> 120

\* a < b for Python strings
StrLess(a, b) ==
    \E k \in 1..(Len(b)) :
        /\ \A j \in 1..(k - 1) : j <= Len(a) /\ a[j] = b[j]
        /\ (k = Len(a) + 1 \/ (k <= Len(a) /\ Ord(a[k]) < Ord(b[k])))

\* summary_df.sort_values('File Name', ascending = True) on rows that all have
\* a distinct file name
RECURSIVE SortByFileName(_)
SortByFileName(rows) ==
    IF rows = <<>> THEN <<>>
    ELSE LET i == CHOOSE i \in DOMAIN rows : \A j \in DOMAIN rows :
                      ~StrLess(DictGet(rows[j], "File Name"), DictGet(rows[i], "File Name"))
         IN  <<rows[i]>> \o SortByFileName(SubSeq(rows, 1, i - 1) \o SubSeq(rows, i + 1, Len(rows)))

\* f'Ch {i+1} {stat} {measurement}' for every channel of the processor, the
\* statistic 'Mean' and the seven measurements
ChannelNumber(i) == CASE i = 1 -> "1" [] i = 2 -> "2" [] i = 3 -> "3"

MeasurementsToCompare ==
    <<"Period", "Shift", "Peak Width", "Peak Max", "Peak Min", "Peak Amp", "Peak Rel Amp">>

ParamsToCompare(p) ==
    [t \in 1..(p.num_channels * Len(MeasurementsToCompare)) |->
        "Ch " \o ChannelNumber(((t - 1) \div Len(MeasurementsToCompare)) + 1) \o " Mean "
        \o MeasurementsToCompare[((t - 1) % Len(MeasurementsToCompare)) + 1]]

\* A variant of the operator below that gives up at the first column it
\* cannot plot
generate_group_comparison_first(p, headers, log) ==
    LET missing == SelectSeq(ParamsToCompare(p),
                     LAMBDA param : ~({"Group Name", param} \subseteq Range(headers)))
    IN  [log EXCEPT !["Plotting errors"] =
            @ \o [i \in DOMAIN SubSeq(missing, 1, 1) |->
                    <<"No data to compare for ", missing[i]>>]]

\* generate_group_comparison: plotComparisons raises ValueError for a column
\* the data frame does not have, and the parameter is logged
generate_group_comparison(p, headers, log) ==
    LET missing == SelectSeq(ParamsToCompare(p),
                     LAMBDA param : ~({"Group Name", param} \subseteq Range(headers)))
    IN  [log EXCEPT !["Plotting errors"] =
            @ \o [i \in DOMAIN missing |-> <<"No data to compare for ", missing[i]>>]]

NotSaved == [saved |-> FALSE]
NotWritten == [written |-> FALSE]

\* A variant of the operator below that leaves the rows of the data frame in
\* the order of the main loop
FinishOutcome_listing(d, groups, p, headers, summaries, log) ==
    IF d = "script"
    THEN [raised |-> "none", log |-> log,
          df |-> [saved |-> TRUE, columns |-> headers, rows |-> summaries]]
    ELSE IF "File Name" \notin Range(headers)
    THEN [raised |-> "KeyError", log |-> log, df |-> NotSaved]
    ELSE [raised |-> "none",
          log |-> IF groups # NoGroups THEN generate_group_comparison(p, headers, log)
                  ELSE log,
          df |-> [saved |-> TRUE, columns |-> headers, rows |-> summaries]]

\* What follows the main loop: [raised, df, log].  The script builds the data
\* frame and writes the log; combined.py sorts the data frame by 'File Name'
\* (a KeyError without that column), compares the groups and writes the log.
FinishOutcome(d, groups, p, headers, summaries, log) ==
    IF d = "script"
    THEN [raised |-> "none", log |-> log,
          df |-> [saved |-> TRUE, columns |-> headers, rows |-> summaries]]
    ELSE IF "File Name" \notin Range(headers)
    THEN [raised |-> "KeyError", log |-> log, df |-> NotSaved]
    ELSE [raised |-> "none",
          log |-> IF groups # NoGroups THEN generate_group_comparison(p, headers, log)
                  ELSE log,
          df |-> [saved |-> TRUE, columns |-> headers, rows |-> SortByFileName(summaries)]]

(***************************************************************************)
(* Inputs of a batch run.                                                  *)
(***************************************************************************)
\* file names without the extension: one holds the label a, one a and b
Stems == { <<"a">>, <<"a", "b">> }

\* entries that the listing filters out: a hidden file and a text file
OtherEntries == { Dot \o <<"a">> \o Ext, <<"a", ".", "t", "x", "t">> }

Labels == { <<"a">>, <<"b">>, <<"t">> }

GroupLists == {NoGroups} \cup UNION {[1..k -> Labels] : k \in 1..MaxGroups}

\* the images stored in the folder, by kind: one box of a two-channel wave, a
\* single frame, three channels, and two constant channels
ImageKinds == {"wave", "one_frame", "three_channels", "flat"}

\* imread(image_path) with the metadata of the file
ReadImage(kind) ==
    CASE kind = "wave"           -> Image(12, 2, << <<"tri4", "tri4d">> >>)
      [] kind = "one_frame"      -> Image(1, 2, << <<"tri4", "tri4d">> >>)
      [] kind = "three_channels" -> Image(12, 3, << <<"tri4", "tri4d", "tri4">> >>)
      [] kind = "flat"           -> Image(12, 2, << <<"flat", "flat">> >>)

\* the (entry, kind of image) pairs a folder is made of
FolderItems ==
    {<<stem \o Ext, kind>> : stem \in Stems, kind \in ImageKinds}
    \cup {<<entry, "wave">> : entry \in OtherEntries}

\* the folders: up to MaxFiles entries with distinct names, in listing order
Folders ==
    {f \in UNION {[1..k -> FolderItems] : k \in 0..MaxFiles} :
        \A i, j \in DOMAIN f : i # j => f[i][1] # f[j][1]}

(***************************************************************************)
(* Actions.                                                                *)
(***************************************************************************)
NoProcessor == [constructed |-> FALSE]

\* no pixels at hand: the boxes of the image are given as time series
NoImage == [y_dim |-> 0, x_dim |-> 0, px |-> <<>>]

Unbinned == image_px = NoImage /\ box_size = 0

EmptyLog == [k \in (IF driver = "combined" THEN WorkflowLogKeys ELSE LogKeys) |-> <<>>]

\* The state of a run before its first statement
Fresh ==
    /\ file_names = <<>> /\ log_params = EmptyLog /\ col_headers = <<>>
    /\ summary_list = <<>> /\ summary_df = NotSaved /\ log_file = NotWritten
    /\ idx = 0 /\ group_name = NoneStr
    /\ acf_results = <<>> /\ ccf_results = <<>> /\ peak_results = <<>>
    /\ im_measurements = <<>> /\ file_data_summary = <<>>
    /\ raised = "none"

\* A batch run: a driver, a folder, the group names and the threshold of the GUI
Init ==
    /\ driver \in {"script", "combined"}
    /\ folder \in Folders
    /\ listdir = DictKeys(folder)
    /\ group_names \in GroupLists
    /\ acf_peak_thresh \in GuiThresholds
    /\ Unbinned
    /\ processor = NoProcessor
    /\ pc = "start"
    /\ measurement_list = <<>>
    /\ Fresh

\* The error catching for group names
CheckGroups ==
    /\ pc = "start"
    /\ \E r \in {GroupCheck(listdir, group_names, log_params)} :
          /\ file_names' = r.files
          /\ log_params' = r.log
          /\ pc' = IF r.exit THEN "exit" ELSE "loop"
    /\ UNCHANGED <<inputVars, col_headers, summary_list, summary_df, log_file, idx,
                   group_name, processor, resultVars, measurement_list, raised>>

\* One pass of `for file_name in file_names` up to the analysis
ProcessFile ==
    /\ pc = "loop"
    /\ idx < Len(file_names)
    /\ idx' = idx + 1
    /\ \E made \in {Construct(driver, ReadImage(DictGet(folder, file_names[idx + 1])))} :
          /\ \E o \in {FileOutcome(driver, group_names, file_names[idx + 1], made,
                                   group_name, log_params)} :
                /\ pc' = o.pc
                /\ raised' = o.raised
                /\ log_params' = o.log
                /\ group_name' = o.group
          /\ IF made.exc = "none"
             THEN /\ processor' = made.p
                  /\ acf_results' = <<>> /\ ccf_results' = <<>> /\ peak_results' = <<>>
                  /\ im_measurements' = <<>> /\ file_data_summary' = <<>>
             ELSE UNCHANGED <<processor, resultVars>>
    /\ UNCHANGED <<inputVars, file_names, col_headers, summary_list, summary_df,
                   log_file, measurement_list>>

\* acf_results = processor.calc_ACF(peak_thresh = acf_peak_thresh)
CallCalcACF ==
    /\ pc = "acf"
    /\ acf_results' = RunACF(driver, processor, acf_results,
                             acf_peak_thresh[1], acf_peak_thresh[2])
    /\ pc' = AfterStage(driver, "acf", processor)
    /\ UNCHANGED <<driverVars, processor, ccf_results, peak_results,
                   im_measurements, file_data_summary, measurement_list, raised>>

\* ccf_results = processor.calc_CCF()
CallCalcCCF ==
    /\ pc = "ccf"
    /\ \E r \in {RunCCF(driver, processor, ccf_results)} :
           /\ ccf_results' = r.res
           /\ raised' = r.exc
           /\ pc' = IF r.exc = "none" THEN AfterStage(driver, "ccf", processor) ELSE "raised"
    /\ UNCHANGED <<driverVars, processor, acf_results, peak_results,
                   im_measurements, file_data_summary, measurement_list>>

\* peak_properties = processor.calc_peaks()
CallCalcPeaks ==
    /\ pc = "peaks"
    /\ \E r \in {RunPeaks(driver, processor, peak_results)} :
           /\ peak_results' = r.res
           /\ raised' = r.exc
           /\ pc' = IF r.exc = "none" THEN AfterStage(driver, "peaks", processor) ELSE "raised"
    /\ UNCHANGED <<driverVars, processor, acf_results, ccf_results,
                   im_measurements, file_data_summary, measurement_list>>

\* im_measurements_df, im_summary_dict = processor.summarize_results(), and in a
\* driver the lines that collect the summary
CallSummarize ==
    /\ pc = "summarize"
    /\ \E r \in {RunSummary(driver, processor, acf_results, ccf_results, peak_results,
                            IF driver = "none" THEN NoneStr ELSE file_names[idx],
                            group_name)} :
           /\ raised' = r.exc
           /\ IF r.exc = "none"
              THEN /\ pc' = AfterStage(driver, "summarize", processor)
                   /\ im_measurements' = r.measurements
                   /\ file_data_summary' = r.summary
                   /\ IF driver = "none"
                      THEN UNCHANGED <<col_headers, summary_list>>
                      ELSE /\ col_headers' = ExtendHeaders(col_headers, DictKeys(r.summary))
                           /\ summary_list' = Append(summary_list, r.summary)
              ELSE /\ pc' = "raised"
                   /\ UNCHANGED <<im_measurements, file_data_summary, col_headers,
                                  summary_list>>
    /\ UNCHANGED <<inputVars, file_names, log_params, summary_df, log_file, idx,
                   group_name, processor, acf_results, ccf_results, peak_results,
                   measurement_list>>

\* im_measurements, file_data_summary = processor.summarize_rolling_results()
CallSummarizeRolling ==
    /\ pc = "summarize_rolling"
    /\ \E r \in {summarize_rolling_results(processor, acf_results, ccf_results,
                                           peak_results)} :
           /\ raised' = r.exc
           /\ IF r.exc = "none"
              THEN /\ pc' = "done"
                   /\ im_measurements' = r.measurements
                   /\ file_data_summary' = r.summary
              ELSE /\ pc' = "raised"
                   /\ UNCHANGED <<im_measurements, file_data_summary>>
    /\ UNCHANGED <<driverVars, processor, acf_results, ccf_results, peak_results,
                   measurement_list>>

\* The statements after the main loop
Finish ==
    /\ pc = "loop"
    /\ idx = Len(file_names)
    /\ \E o \in {FinishOutcome(driver, group_names, processor, col_headers,
                               summary_list, log_params)} :
           /\ raised' = o.raised
           /\ summary_df' = o.df
           /\ log_params' = o.log
           /\ log_file' = IF o.raised = "none"
                          THEN [written |-> TRUE, params |-> o.log] ELSE log_file
           /\ pc' = IF o.raised = "none" THEN "done" ELSE "raised"
    /\ UNCHANGED <<inputVars, file_names, col_headers, summary_list, idx, group_name,
                   processor, resultVars, measurement_list>>

Next ==
    \/ CheckGroups
    \/ ProcessFile
    \/ CallCalcACF
    \/ CallCalcCCF
    \/ CallCalcPeaks
    \/ CallSummarize
    \/ Finish

Spec == Init /\ [][Next]_vars

(***************************************************************************)
(* SpecProc: a caller constructs one SignalProcessor, in single-window or  *)
(* in rolling mode, and runs the analysis in the order of the main         *)
(* workflow.  An exception that a method raises ends the run.              *)
(***************************************************************************)
NoDriver ==
    /\ driver = "none" /\ folder = <<>> /\ listdir = <<>> /\ group_names = NoGroups

InitProc ==
    /\ NoDriver
    /\ Unbinned
    /\ acf_peak_thresh \in PeakThresholds
    /\ pc = "acf"
    /\ \/ \E image \in ProcImages :
              \/ processor = SignalProcessor(image, FALSE, 0, 0)
              \/ \E rc \in RollConfigs : processor = SignalProcessor(image, TRUE, rc[1], rc[2])
       \/ \E image \in LongImages : processor = SignalProcessor(image, TRUE, 11, 1)
    /\ measurement_list = <<>>
    /\ Fresh

NextProc ==
    \/ CallCalcACF
    \/ CallCalcCCF
    \/ CallCalcPeaks
    \/ CallSummarize
    \/ CallSummarizeRolling

SpecProc == InitProc /\ [][NextProc]_vars

(***************************************************************************)
(* SpecStats: add_stats applied to a list of measurements.                 *)
(***************************************************************************)
Measurements == {Num(1), Num(2), Num(3), NaN}

InitStats ==
    /\ NoDriver
    /\ Unbinned
    /\ acf_peak_thresh = <<1, 10>>
    /\ processor = NoProcessor
    /\ pc = "stats"
    /\ Fresh
    /\ measurement_list \in SeqsUpTo(Measurements, MaxLen)

\* measurement_list = self.add_stats(measurement_list, 'Period')
CallAddStats ==
    /\ pc = "stats"
    /\ measurement_list' = add_stats(measurement_list, "Period")
    /\ pc' = "done"
    /\ UNCHANGED <<driverVars, processor, resultVars, raised>>

NextStats == CallAddStats

SpecStats == InitStats /\ [][NextStats]_vars

(***************************************************************************)
(* SpecBins: SignalProcessor constructed on an image given by its pixels.  *)
(***************************************************************************)
\* the images of y_dim rows and x_dim columns; the pixel at row r, column c
\* holds r * x_dim + c
PixelImages ==
    {[y_dim |-> h, x_dim |-> w,
      px |-> [r \in 1..h |-> [c \in 1..w |-> (r - 1) * w + (c - 1)]]] :
        h \in 1..MaxDim, w \in 1..MaxDim}

InitBins ==
    /\ NoDriver
    /\ acf_peak_thresh = <<1, 10>>
    /\ image_px \in PixelImages
    /\ box_size \in 1..MaxDim
    /\ processor = NoProcessor
    /\ pc = "construct"
    /\ measurement_list = <<>>
    /\ Fresh

\* processor = SignalProcessor(image_path, box_size)
CallConstructor ==
    /\ pc = "construct"
    /\ processor' = BoxProcessor(image_px, box_size)
    /\ pc' = "done"
    /\ UNCHANGED <<driverVars, resultVars, measurement_list, raised>>

NextBins == CallConstructor

SpecBins == InitBins /\ [][NextBins]_vars

(***************************************************************************)
(* Properties of the group-name checks and of the main loop (Spec).        *)
(***************************************************************************)
\* some analysed file name contains two or more of the configured labels
AmbiguousFile ==
    \E i \in DOMAIN listdir :
        IsImageFile(listdir[i]) /\ Len(MatchingGroups(group_names, listdir[i])) >= 2

\* no image has been opened, logged or summarized, and no group assigned
NothingProcessed ==
    /\ processor = NoProcessor
    /\ idx = 0
    /\ summary_list = <<>>
    /\ log_params["Files Processed"] = <<>>
    /\ log_params["Files Not Processed"] = <<>>
    /\ group_name = NoneStr
    /\ summary_df = NotSaved

\* C1: when a file name contains two or more of the configured group labels,
\* the run never gets past the group-name checks: it exits there, no image is
\* processed and no group is assigned to any file.
C1_AmbiguousMatchAborts ==
    AmbiguousFile => pc \in {"start", "exit"} /\ NothingProcessed

\* C1 happens: the run has exited on a file that matches two labels, each of
\* which was found in a file name
C1_Witness ==
    /\ AmbiguousFile
    /\ pc = "exit"
    /\ ~GroupsMissing(GroupsFound(group_names, file_names), group_names)

\* the file name contains none of the configured labels
Unmatched(file_name) == MatchingGroups(group_names, file_name) = <<>>

\* the image stored under the file name passes the frame and channel tests
Processable(file_name) ==
    /\ ReadImage(DictGet(folder, file_name)).num_frames >= 2
    /\ ReadImage(DictGet(folder, file_name)).num_channels <= 2

\* C2: a file whose name contains none of the configured group labels is
\* recorded under "Group Matching Errors", does not end the run when the main
\* loop takes it up, and at the end of the run it is among the files
\* processed, with one summary per processed file.
C2_UnmatchedFileIsProcessed ==
    \A i \in DOMAIN file_names :
        (pc \notin {"start", "exit"} /\ Unmatched(file_names[i])) =>
            /\ <<file_names[i], " was not matched to a group">>
                    \in Range(log_params["Group Matching Errors"])
            /\ ~(idx = i /\ pc = "raised" /\ raised = "IndexError")
            /\ (pc = "done" /\ Processable(file_names[i])) =>
                    /\ file_names[i] \in Range(log_params["Files Processed"])
                    /\ Len(summary_list) = Len(log_params["Files Processed"])

\* the image stored under the file name has fewer than 2 frames or more than
\* 2 channels
Skippable(file_name) ==
    \/ ReadImage(DictGet(folder, file_name)).num_frames < 2
    \/ ReadImage(DictGet(folder, file_name)).num_channels > 2

\* C3: a file with fewer than 2 frames or more than 2 channels that the main
\* loop has taken up is listed under "Files Not Processed" and not under
\* "Files Processed", adds no summary, and the batch does not end with an
\* exception.
C3_SkippedFileIsLoggedAndBatchContinues ==
    \A i \in 1..idx :
        Skippable(file_names[i]) =>
            /\ \E entry \in Range(log_params["Files Not Processed"]) :
                    entry[1] = file_names[i]
            /\ file_names[i] \notin Range(log_params["Files Processed"])
            /\ Len(summary_list) <= Len(log_params["Files Processed"])
            /\ pc # "raised"

\* a configured label occurs in no analysed file name, or occurs twice in the
\* list of labels
BadGroupConfig ==
    \/ \E i \in DOMAIN group_names :
          ~\E j \in DOMAIN listdir :
              IsImageFile(listdir[j]) /\ StrIn(group_names[i], listdir[j])
    \/ \E i, j \in DOMAIN group_names : i # j /\ group_names[i] = group_names[j]

\* C4: when a configured group label matches no file name, or a label is
\* duplicated, the run never gets past the group-name checks and no image is
\* processed.
C4_BadGroupConfigAborts ==
    BadGroupConfig => pc \in {"start", "exit"} /\ NothingProcessed

\* C4 happens: the run has exited although no file name is ambiguous
C4_Witness ==
    /\ BadGroupConfig
    /\ ~AmbiguousFile
    /\ file_names # <<>>
    /\ pc = "exit"

FileNameColumn(df) == [i \in DOMAIN df.rows |-> DictGet(df.rows[i], "File Name")]

\* C18: the summary table that combined_workflow returns has one row for every
\* file logged as processed and no other row, and its rows are in strictly
\* ascending order of 'File Name', whatever the order of the listing.
C18_OneRowPerFileSortedByName ==
    (driver = "combined" /\ pc = "done") =>
        /\ summary_df.saved
        /\ Len(summary_df.rows) = Len(log_params["Files Processed"])
        /\ Range(FileNameColumn(summary_df)) = Range(log_params["Files Processed"])
        /\ \A i, j \in DOMAIN summary_df.rows :
              i < j => StrLess(FileNameColumn(summary_df)[i], FileNameColumn(summary_df)[j])

\* C18 happens: the listing gives ab.tif before a.tif, both are processed, and
\* the table returned has a.tif first
C18_Witness ==
    /\ driver = "combined" /\ pc = "done"
    /\ log_params["Files Processed"] = << <<"a", "b">> \o Ext, <<"a">> \o Ext >>
    /\ FileNameColumn(summary_df) = << <<"a">> \o Ext, <<"a", "b">> \o Ext >>

(***************************************************************************)
(* Properties of SignalProcessor (SpecProc).                               *)
(***************************************************************************)
\* the window indices under which results are stored
WindowTags(results) == {results[i][1].sub : i \in DOMAIN results}

\* C5: in rolling mode a processor with fewer than 1 window does not get
\* through calc_ACF: the call fails with an error.
C5_NoWindowIsAnError ==
    (processor.roll /\ processor.num_subframes < 1 /\ pc # "acf") => raised # "none"

\* C6: rolling mode with 20 frames, a window of 10 and a stride of 5 has
\* exactly 3 windows, and calc_ACF stores results for the windows 0, 1, 2.
C6_ThreeWindows ==
    (processor.roll /\ processor.num_frames = 20
        /\ processor.roll_size = 10 /\ processor.roll_by = 5) =>
        /\ processor.num_subframes = 3
        /\ pc # "acf" => WindowTags(acf_results) = {0, 1, 2}

\* C7: in rolling mode the number of windows is
\* (num_frames - window_size) // stride, and the windows calc_ACF has stored
\* are exactly 0 .. num_windows - 1.
C7_WindowCountAndIndices ==
    processor.roll =>
        /\ processor.num_subframes =
              (processor.num_frames - processor.roll_size) \div processor.roll_by
        /\ pc # "acf" =>
              WindowTags(acf_results) =
                0..(((processor.num_frames - processor.roll_size) \div processor.roll_by) - 1)

\* C7 happens: calc_ACF has run over two windows
C7_Witness ==
    /\ processor.roll
    /\ pc # "acf"
    /\ processor.num_subframes = 2
    /\ WindowTags(acf_results) = {0, 1}

\* the keys of the bins calc_CCF goes through
CCFBins(p) ==
    IF p.roll
    THEN {[box |-> b, sub |-> w] : b \in 0..(p.num_boxes - 1), w \in 0..(p.num_subframes - 1)}
    ELSE {[box |-> b] : b \in 0..(p.num_boxes - 1)}

\* the cross-correlation curve calc_CCF computes for the bin
CCFBinCurve(p, key) ==
    IF p.roll
    THEN NormCorr(SubframeSignal(p, key.box, 1, key.sub),
                  SubframeSignal(p, key.box, 0, key.sub), p.num_frames)
    ELSE NormCorr(p.box_means[key.box + 1][2], p.box_means[key.box + 1][1], p.num_frames)

\* C8: once calc_CCF has been called on a two-channel image, every bin whose
\* cross-correlation curve has no local maximum has a stored shift, and the
\* shift is NaN (so the call did not raise at that bin).
C8_NoPeakGivesNaNShift ==
    (processor.num_channels = 2 /\ pc \notin {"acf", "ccf"}) =>
        \A key \in CCFBins(processor) :
            FindPeaks(CCFBinCurve(processor, key)) = <<>> =>
                /\ DictHas(ccf_results, key)
                /\ DictGet(ccf_results, key)[1] = NaN

\* both channels of box b are constant over time
ConstantBin(p, b) ==
    \A ch \in 1..p.num_channels : \A t \in 1..p.num_frames :
        p.box_means[b + 1][ch][t] = p.box_means[b + 1][ch][1]

\* C9: for a two-channel image in single-window mode with a constant bin, no
\* call of the analysis raises, and once the three calls have returned the
\* bin's periods, shift and five peak outputs are NaN.
C9_ConstantBinGivesNaN ==
    \A b \in 0..(processor.num_boxes - 1) :
        (processor.num_channels = 2 /\ ~processor.roll
            /\ processor.num_frames >= SavgolWindow /\ ConstantBin(processor, b)) =>
            /\ raised = "none"
            /\ pc \in {"summarize", "done"} =>
                /\ \A ch \in {1, 2} :
                      /\ DictGet(acf_results, [ch |-> ch, box |-> b])[1] = NaN
                      /\ DictGet(peak_results, [ch |-> ch, box |-> b]) = NanTuple
                /\ DictHas(ccf_results, [box |-> b])
                /\ DictGet(ccf_results, [box |-> b])[1] = NaN

\* the value of the curve at its centre (lag 0) is exactly 1:
\* num[centre] / (ndiv * sqrt(v1 * v2)) with v1 = v2
CentreIsOne(c) == c.num[CurveLen(c) \div 2 + 1] = c.ndiv * c.v1

\* C12: every autocorrelation curve stored with its values (not replaced by
\* NaN), and every stored cross-correlation curve of a bin whose two channel
\* series are identical and not constant, has the value 1 at its centre, in
\* single-window mode and in rolling mode.
C12_CentreValueIsOne ==
    /\ \A i \in DOMAIN acf_results :
          ~CurveIsNan(acf_results[i][2][2]) => CentreIsOne(acf_results[i][2][2])
    /\ \A i \in DOMAIN ccf_results :
          LET key == ccf_results[i][1]
              b   == processor.box_means[key.box + 1]
          IN  (b[1] = b[2] /\ ~CurveIsNan(ccf_results[i][2][2])) =>
                  CentreIsOne(ccf_results[i][2][2])

\* the number of samples calc_ACF correlates for one bin: the window in
\* rolling mode, the whole series otherwise
WindowLength(p) == IF p.roll THEN p.roll_size ELSE p.num_frames

\* C13: a bin whose autocorrelation curve has fewer than 2 peaks is stored
\* with a NaN period and a curve that is NaN everywhere and as long as the
\* curve it replaces: 2N - 1 for the N samples correlated.
C13_NanCurveKeepsLength ==
    \A i \in DOMAIN acf_results :
        acf_results[i][2][1] = NaN =>
            /\ CurveIsNan(acf_results[i][2][2])
            /\ CurveLen(acf_results[i][2][2]) = 2 * WindowLength(processor) - 1

\* the series repeats after P frames and after no fewer
HasPeriod(s, P) ==
    /\ \A t \in 1..(Len(s) - P) : s[t + P] = s[t]
    /\ \A Q \in 1..(P - 1) : \E t \in 1..(Len(s) - Q) : s[t + Q] # s[t]

\* s2 is s1 delayed by D frames (advanced when D < 0)
DelayedBy(s1, s2, D) ==
    \A t \in DOMAIN s2 : (t - D) \in DOMAIN s1 => s2[t] = s1[t - D]

\* box b holds a wave of period P in channel 1 and the same wave delayed by D
\* in channel 2, with 4 <= P <= N/2 and |D| < P/2
PeriodicBox(p, b, P, D) ==
    /\ 4 <= P /\ 2 * P <= p.num_frames /\ 2 * Abs(D) < P
    /\ HasPeriod(p.box_means[b + 1][1], P)
    /\ DelayedBy(p.box_means[b + 1][1], p.box_means[b + 1][2], D)

\* every box of the image is such a wave
PeriodicImage(p) ==
    /\ p.num_channels = 2
    /\ \A b \in 0..(p.num_boxes - 1) :
          \E P \in 4..(p.num_frames \div 2) : \E D \in (-P)..P : PeriodicBox(p, b, P, D)

\* v is the integer n, or one more or less
Within1(v, n) == v \in {Num(n - 1), Num(n), Num(n + 1)}

\* C14: in single-window mode, for an image whose every box holds a wave of
\* period P (4 <= P <= N/2) with channel 2 delayed by D frames against
\* channel 1 (|D| < P/2), calc_ACF stores a period within 1 of P for both
\* channels and calc_CCF stores a shift within 1 of +D for every box.
C14_PeriodAndShiftRecovered ==
    (~processor.roll /\ PeriodicImage(processor)) =>
        \A b \in 0..(processor.num_boxes - 1) :
          \A P \in 4..(processor.num_frames \div 2) : \A D \in (-P)..P :
            PeriodicBox(processor, b, P, D) =>
                /\ pc # "acf" =>
                      \A ch \in {1, 2} :
                          Within1(DictGet(acf_results, [ch |-> ch, box |-> b])[1], P)
                /\ pc \notin {"acf", "ccf"} =>
                      /\ DictHas(ccf_results, [box |-> b])
                      /\ Within1(DictGet(ccf_results, [box |-> b])[1], D)

\* C14 happens: the three calls have gone through an image of two boxes with a
\* wave of period 6 whose channel 2 leads channel 1 by two frames
C14_Witness ==
    /\ ~processor.roll /\ PeriodicImage(processor)
    /\ processor.num_boxes = 2
    /\ PeriodicBox(processor, 1, 6, -2)
    /\ pc = "summarize"
    /\ DictGet(ccf_results, [box |-> 1])[1] = Num(-2)
    /\ DictGet(acf_results, [ch |-> 2, box |-> 1])[1] = Num(6)

\* the series calc_ACF correlates for the bin stored under key
ACFBinSignal(p, key) ==
    IF p.roll
    THEN SubframeSignal(p, key.box, key.ch - 1, key.sub)
    ELSE p.box_means[key.box + 1][key.ch]

\* the values of the curve read the same from both ends
Symmetric(c) ==
    \A k \in 1..CurveLen(c) : c.num[k] = c.num[CurveLen(c) + 1 - k]

\* C15: whenever calc_ACF is called, for every bin it stores, the
\* autocorrelation curve computed from the bin's N samples has 2N - 1 values
\* and is symmetric about its centre, acf[i] = acf[2N - 2 - i]; a curve stored
\* with its values is that curve.
C15_ACFIsSymmetric ==
    [][pc = "acf" =>
        \A i \in DOMAIN acf_results' :
            \E c \in {NormCorr(ACFBinSignal(processor, acf_results'[i][1]),
                               ACFBinSignal(processor, acf_results'[i][1]),
                               WindowLength(processor))} :
                /\ CurveLen(c) = 2 * Len(ACFBinSignal(processor, acf_results'[i][1])) - 1
                /\ Symmetric(c)
                /\ ~CurveIsNan(acf_results'[i][2][2]) =>
                      /\ acf_results'[i][2][2] = c
                      /\ Symmetric(acf_results'[i][2][2])]_vars

\* C15 happens: calc_ACF has stored the 23 values of the curve of a 12-frame
\* wave, and they are not all equal
C15_Witness ==
    \E i \in DOMAIN acf_results :
        /\ ~CurveIsNan(acf_results[i][2][2])
        /\ CurveLen(acf_results[i][2][2]) = 23
        /\ acf_results[i][2][2].num[1] # acf_results[i][2][2].num[12]
        /\ acf_results[i][2][2].num[1] = acf_results[i][2][2].num[23]

\* the keys of the bins calc_ACF and calc_peaks go through
ChannelBins(p) ==
    IF p.roll
    THEN {[ch |-> c, box |-> b, sub |-> w] :
            c \in 1..p.num_channels, b \in 0..(p.num_boxes - 1),
            w \in 0..(p.num_subframes - 1)}
    ELSE {[ch |-> c, box |-> b] : c \in 1..p.num_channels, b \in 0..(p.num_boxes - 1)}

\* C16: whenever calc_peaks is called on series long enough to be smoothed,
\* it does not raise, and every bin in whose smoothed series no peak is
\* detected is stored with NaN for width, max, min, amplitude and relative
\* amplitude.
C16_NoPeakGivesNaNTuple ==
    [][(pc = "peaks" /\ WindowLength(processor) >= SavgolWindow) =>
        /\ raised' = "none"
        /\ \A key \in ChannelBins(processor) :
              FindPeaksRange(SavgolFilter(ACFBinSignal(processor, key))) = <<>> =>
                  /\ DictHas(peak_results', key)
                  /\ DictGet(peak_results', key) = NanTuple]_vars

\* C16 happens: calc_peaks has returned from an image with a ramp, whose
\* smoothed series has no peak, and stored five NaN for it
C16_Witness ==
    /\ pc = "summarize" /\ raised = "none"
    /\ \E key \in ChannelBins(processor) :
          /\ ACFBinSignal(processor, key)[1] # ACFBinSignal(processor, key)[2]
          /\ FindPeaksRange(SavgolFilter(ACFBinSignal(processor, key))) = <<>>
          /\ DictGet(peak_results, key) = NanTuple

\* the peaks calc_ACF detects in the curve of the bin stored under key
ACFBinPeaks(p, key, tn, td) ==
    FindPeaksProm(NormCorr(ACFBinSignal(p, key), ACFBinSignal(p, key), WindowLength(p)),
                  tn, td)

\* the distances from the centre of a curve of 2N - 1 values to the peaks
\* that are not at the centre
PeakDistances(peaks, N) == {Abs(peaks[i] - (N - 1)) : i \in DOMAIN peaks} \ {0}

\* C19: whenever calc_ACF is called, a bin in whose curve it detects 2 or more
\* peaks has a peak off the centre, and its stored period is the smallest
\* distance of such a peak from the centre index; every stored period that
\* is not NaN is an integer from 1 to N - 1, N the number of samples
\* correlated.
C19_PeriodIsSmallestNonzeroDistance ==
    [][pc = "acf" =>
        \A i \in DOMAIN acf_results' :
            \E peaks \in {ACFBinPeaks(processor, acf_results'[i][1],
                                       acf_peak_thresh[1], acf_peak_thresh[2])} :
                /\ Len(peaks) >= 2 =>
                      /\ PeakDistances(peaks, WindowLength(processor)) # {}
                      /\ \E m \in PeakDistances(peaks, WindowLength(processor)) :
                            /\ acf_results'[i][2][1] = Num(m)
                            /\ \A x \in PeakDistances(peaks, WindowLength(processor)) : m <= x
                /\ acf_results'[i][2][1] # NaN =>
                      \E m \in 1..(WindowLength(processor) - 1) :
                          acf_results'[i][2][1] = Num(m)]_vars

\* C19 happens: calc_ACF has stored the period 4 for a bin whose curve has
\* peaks at the distances 4 and 8 from the centre
C19_Witness ==
    /\ pc # "acf"
    /\ \E i \in DOMAIN acf_results :
          /\ acf_results[i][2][1] = Num(4)
          /\ {4, 8} \subseteq
                PeakDistances(FindPeaksProm(acf_results[i][2][2],
                                            acf_peak_thresh[1], acf_peak_thresh[2]),
                              WindowLength(processor))

\* k is the offset from the centre of a peak of the curve that no other peak
\* is nearer to the centre than
NearestPeakOffset(c, k) ==
    /\ \E i \in DOMAIN FindPeaks(c) : FindPeaks(c)[i] = k + CurveLen(c) \div 2
    /\ \A i \in DOMAIN FindPeaks(c) : Abs(k) <= Abs(FindPeaks(c)[i] - CurveLen(c) \div 2)

\* C20: whenever calc_CCF is called on a two-channel image, every bin it
\* stores has the curve of the correlation of channel 2's series (first
\* argument) with channel 1's (second), and its shift is the index of a peak
\* of that curve nearest the centre, minus the centre index; and if the
\* curve of every bin has a local maximum the call does not raise and stores
\* every bin.
C20_ShiftIsNearestPeakOffset ==
    [][(pc = "ccf" /\ processor.num_channels = 2) =>
        /\ \A i \in DOMAIN ccf_results' :
              /\ ccf_results'[i][2][2] = CCFBinCurve(processor, ccf_results'[i][1])
              /\ FindPeaks(ccf_results'[i][2][2]) # <<>>
              /\ \E k \in (-CurveLen(ccf_results'[i][2][2]))..CurveLen(ccf_results'[i][2][2]) :
                    /\ ccf_results'[i][2][1] = Num(k)
                    /\ NearestPeakOffset(ccf_results'[i][2][2], k)
        /\ (\A key \in CCFBins(processor) : FindPeaks(CCFBinCurve(processor, key)) # <<>>) =>
              /\ raised' = "none"
              /\ \A key \in CCFBins(processor) : DictHas(ccf_results', key)]_vars

\* C20 happens: calc_CCF has stored the shift -2 for a bin whose curve has
\* three peaks or more, the nearest of them two samples before the centre
C20_Witness ==
    /\ pc \notin {"acf", "ccf"} /\ raised = "none"
    /\ \E i \in DOMAIN ccf_results :
          /\ ccf_results[i][2][1] = Num(-2)
          /\ Len(FindPeaks(ccf_results[i][2][2])) >= 3
          /\ NearestPeakOffset(ccf_results[i][2][2], -2)

\* of the peaks pk of a curve with centre index mid, one is k samples before
\* the centre, one k samples after it, k > 0, and none is nearer
TiedAt(pk, mid, k) ==
    /\ k > 0
    /\ \E i \in DOMAIN pk : pk[i] = mid - k
    /\ \E i \in DOMAIN pk : pk[i] = mid + k
    /\ \A i \in DOMAIN pk : Abs(pk[i] - mid) >= k

\* C29: whenever calc_CCF stores a bin whose curve has two peaks equally
\* near the centre, k samples before it and k samples after it, the stored
\* shift is -k, the offset of the peak of lower index.
C29_TieGoesToLowerIndex ==
    [][(pc = "ccf" /\ processor.num_channels = 2) =>
        \A i \in DOMAIN ccf_results' :
            \E pk \in {FindPeaks(ccf_results'[i][2][2])},
               mid \in {CurveLen(ccf_results'[i][2][2]) \div 2} :
                \A k \in 1..mid :
                    TiedAt(pk, mid, k) => ccf_results'[i][2][1] = Num(-k)]_vars

\* calc_CCF has stored the shift -2 for a bin whose curve has peaks two
\* samples before and two samples after its centre
C29_Witness ==
    /\ pc \notin {"acf", "ccf"} /\ raised = "none"
    /\ \E i \in DOMAIN ccf_results :
          /\ TiedAt(FindPeaks(ccf_results[i][2][2]),
                    CurveLen(ccf_results[i][2][2]) \div 2, 2)
          /\ ccf_results[i][2][1] = Num(-2)

\* the peaks calc_peaks detects in the smoothed series x, and for the peak at
\* index q: min = max - prominence, amplitude = max - min and amplitude / min
PeakMin(x, q) == Frac(x[q + 1] - Prominence(x, q), SavgolDen)
PeakAmp(x, q) == Frac(Prominence(x, q), SavgolDen)
PeakRelAmp(x, q) == Frac(Prominence(x, q), x[q + 1] - Prominence(x, q))

\* the five outputs as averages of the per-peak values of the smoothed series
\* x with peaks pk, none of them with a min of 0
PerPeakAverages(x, pk, stored) ==
    /\ stored[3] = FracMean([i \in DOMAIN pk |-> PeakMin(x, pk[i])])
    /\ stored[4] = FracMean([i \in DOMAIN pk |-> PeakAmp(x, pk[i])])
    /\ stored[5] = FracMean([i \in DOMAIN pk |-> PeakRelAmp(x, pk[i])])

\* C21: whenever calc_peaks is called, every bin it stores in whose smoothed
\* series one or more peaks are detected (each with a min other than 0) has
\* as min, amplitude and relative amplitude the averages over its peaks of
\* max - prominence, max - min and (max - min) / min.
C21_RelAmpIsMeanOfPerPeakRatios ==
    [][(pc = "peaks" /\ WindowLength(processor) >= SavgolWindow) =>
        \A i \in DOMAIN peak_results' :
            \E x \in {SavgolFilter(ACFBinSignal(processor, peak_results'[i][1]))} :
                (/\ FindPeaksRange(x) # <<>>
                 /\ \A j \in DOMAIN FindPeaksRange(x) :
                       x[FindPeaksRange(x)[j] + 1] # Prominence(x, FindPeaksRange(x)[j])) =>
                    PerPeakAverages(x, FindPeaksRange(x), peak_results'[i][2])]_vars

\* every key of the set keys is stored in the dict exactly once, and no other
StoredExactly(results, keys) ==
    /\ {results[i][1] : i \in DOMAIN results} = keys
    /\ Len(results) = Cardinality(keys)

\* C22: in rolling mode with windows long enough to be smoothed, every window
\* w in 0 .. num_windows - 1 lies inside the recording and is cut as the
\* window_size frames from stride * w on; no call of the analysis ends early
\* with an error, and each call that has returned has stored one result per
\* bin, channel and window under a key that carries w.
C22_EveryWindowProcessedOnce ==
    (processor.roll /\ processor.roll_size >= SavgolWindow) =>
        /\ \A key \in ChannelBins(processor) :
              /\ processor.roll_by * key.sub + processor.roll_size <= processor.num_frames
              /\ ACFBinSignal(processor, key) =
                    SubSeq(processor.box_means[key.box + 1][key.ch],
                           processor.roll_by * key.sub + 1,
                           processor.roll_by * key.sub + processor.roll_size)
        /\ raised = "none"
        /\ pc # "acf" => StoredExactly(acf_results, ChannelBins(processor))
        /\ (pc \notin {"acf", "ccf"} /\ processor.num_channels = 2) =>
              StoredExactly(ccf_results, CCFBins(processor))
        /\ pc \in {"summarize_rolling", "done"} =>
              StoredExactly(peak_results, ChannelBins(processor))

\* the k-th measurement of the bins of channel ch (0: of every bin) that are
\* tagged with window w, in stored order
TaggedValues(results, w, ch, k) ==
    LET mine == SelectSeq(results, LAMBDA it :
                    it[1].sub = w /\ (ch = 0 \/ it[1].ch = ch))
    IN  [i \in DOMAIN mine |-> mine[i][2][k]]

\* the row of a window's data frame and the entries of its summary row are
\* computed from vals
SummarizedFrom(frame, row, name, mean_key, vals) ==
    /\ \E i \in DOMAIN frame :
          /\ frame[i][1] = name
          /\ SubSeq(frame[i], 6, Len(frame[i])) = vals
    /\ DictGet(row, mean_key) = nanmean(vals)

\* C23: a call of summarize_rolling_results does not raise and leaves in
\* file_data_summary one row per window w, in order and tagged with w; the
\* statistics of row w (periods of each channel, share of bins without a
\* period, shift, peak widths) are those of exactly the num_boxes
\* measurements per channel whose key carries the tag w.
C23_OneSummaryRowPerWindow ==
    [][pc = "summarize_rolling" =>
        /\ raised' = "none"
        /\ Len(file_data_summary') = Cardinality(0..(processor.num_subframes - 1))
        /\ \A w \in 0..(processor.num_subframes - 1) :
              \E frame \in {im_measurements'[w + 1]}, row \in {file_data_summary'[w + 1]} :
                 /\ DictGet(row, "Subframe") = Num(w)
                 /\ \A c \in 1..processor.num_channels :
                       \E ch \in {IF c = 1 THEN "Ch1" ELSE "Ch2"} :
                          /\ Len(TaggedValues(acf_results, w, c, 1)) = processor.num_boxes
                          /\ Len(TaggedValues(peak_results, w, c, 1)) = processor.num_boxes
                          /\ SummarizedFrom(frame, row, ch \o " Period", ch \o " Mean Period",
                                            TaggedValues(acf_results, w, c, 1))
                          /\ DictGet(row, ch \o " Pcnt Zero Period") =
                                PcntNoPeriod(processor.num_boxes,
                                             TaggedValues(acf_results, w, c, 1))
                          /\ SummarizedFrom(frame, row, ch \o " Width", ch \o " Mean Width",
                                            TaggedValues(peak_results, w, c, 1))
                 /\ processor.num_channels = 2 =>
                       /\ Len(TaggedValues(ccf_results, w, 0, 1)) = processor.num_boxes
                       /\ SummarizedFrom(frame, row, "Shift", "Shift Mean",
                                         TaggedValues(ccf_results, w, 0, 1))]_vars

\* a recording cut into windows 0 to 10 has been summarized
C23_Witness ==
    /\ pc = "done"
    /\ processor.roll
    /\ processor.num_subframes = 11
    /\ Len(file_data_summary) = 11
    /\ DictGet(file_data_summary[2], "Subframe") = Num(1)
    /\ DictGet(file_data_summary[11], "Subframe") = Num(10)
    /\ DictGet(file_data_summary[11], "Ch1 Mean Period") # NaN

\* the bins of channel c, of window w in rolling mode, whose stored period
\* is NaN
NoPeriodBins(p, c, w) ==
    {key \in ChannelBins(p) :
        /\ key.ch = c
        /\ p.roll => key.sub = w
        /\ DictGet(acf_results, key)[1] = NaN}

\* the summary row gives, for every channel, 100 * (bins without a period) /
\* (all bins), a value from 0 to 100
PercentOfAllBins(p, row, w, name) ==
    \A c \in 1..p.num_channels :
        \E v \in {DictGet(row, (IF c = 1 THEN "Ch1 " ELSE "Ch2 ") \o name)} :
            /\ v = Frac(100 * Cardinality(NoPeriodBins(p, c, w)), p.num_boxes)
            /\ v[2] > 0 /\ 0 <= v[1] /\ v[1] <= 100 * v[2]

\* C24: in a finished summary the 'percent of bins with no detected period'
\* of a channel is the number of its bins whose period is NaN over the number
\* of all its bins, times 100, and lies between 0 and 100; in rolling mode
\* this holds for the bins of each window.
C24_PercentCountsNaNBins ==
    (pc = "done" /\ processor.num_boxes > 0) =>
        IF processor.roll
        THEN \A w \in 0..(processor.num_subframes - 1) :
                PercentOfAllBins(processor, file_data_summary[w + 1], w, "Pcnt Zero Period")
        ELSE PercentOfAllBins(processor, file_data_summary, 0, "% Zero Boxes")

\* one of two bins has no period: the share is 50, and the mean period is
\* the period of the other bin
C24_Witness ==
    /\ pc = "done"
    /\ ~processor.roll
    /\ processor.num_boxes = 2
    /\ Cardinality(NoPeriodBins(processor, 1, 0)) = 1
    /\ DictGet(file_data_summary, "Ch1 % Zero Boxes") = Num(50)
    /\ DictGet(file_data_summary, "Ch1 Mean Period") \in {Num(4), Num(6)}

\* the k-th measurement of every bin of channel c (0: of every bin of
\* ccf_results), in the order of the bins
PerBinValues(p, results, c, k) ==
    [b \in 1..p.num_boxes |->
        DictGet(results, IF c = 0 THEN [box |-> b - 1] ELSE [ch |-> c, box |-> b - 1])[k]]

\* a row of im_measurements is the name, the four statistics of vals, and
\* vals; the four entries of the summary are the statistics of vals
StatsOfExactly(rows, summary, name, prefix, what, vals) ==
    /\ \E i \in DOMAIN rows :
          rows[i] = <<name, nanmean(vals), nanmedian(vals), nanstd(vals),
                      StdOverSqrt(nanstd(vals), Len(vals))>> \o vals
    /\ DictGet(summary, prefix \o "Mean " \o what) = nanmean(vals)
    /\ DictGet(summary, prefix \o "Median " \o what) = nanmedian(vals)
    /\ DictGet(summary, prefix \o "StdDev " \o what) = nanstd(vals)
    /\ DictGet(summary, prefix \o "SEM " \o what) = StdOverSqrt(nanstd(vals), Len(vals))

\* C25: a call of summarize_results leaves every list that add_stats has
\* extended as the name, the mean, median, standard deviation and SEM, and
\* then the per-bin values in the order of the bins; the statistics of the
\* flat summary are those of exactly these num_boxes values (periods of each
\* channel, shifts, peak widths and relative amplitudes).
C25_StatisticsOverBinValuesOnly ==
    [][(pc = "summarize" /\ processor.num_boxes > 0) =>
        /\ raised' = "none"
        /\ \A c \in 1..processor.num_channels :
              \E ch \in {IF c = 1 THEN "Ch1" ELSE "Ch2"} :
                 /\ StatsOfExactly(im_measurements', file_data_summary', ch \o " Period",
                                   ch \o " ", "Period",
                                   PerBinValues(processor, acf_results, c, 1))
                 /\ StatsOfExactly(im_measurements', file_data_summary', ch \o " Width",
                                   ch \o " ", "Width",
                                   PerBinValues(processor, peak_results, c, 1))
                 /\ StatsOfExactly(im_measurements', file_data_summary',
                                   ch \o " Relative Amplitude", ch \o " ", "RelAmp",
                                   PerBinValues(processor, peak_results, c, 5))
        /\ processor.num_channels = 2 =>
              StatsOfExactly(im_measurements', file_data_summary', "Shift", "", "Shift",
                             PerBinValues(processor, ccf_results, 0, 1))]_vars

\* two bins, the first with a period and the second without, have been
\* summarized
C25_Witness ==
    /\ pc = "done"
    /\ ~processor.roll
    /\ processor.num_boxes = 2
    /\ PerBinValues(processor, acf_results, 1, 1) \in {<<Num(4), NaN>>, <<Num(6), NaN>>}
    /\ Len(im_measurements[1]) = 7
    /\ DictGet(file_data_summary, "Ch1 Mean Period") \in {Num(4), Num(6)}

(***************************************************************************)
(* Properties of the analysis of one image within a batch (Spec)           *)
(***************************************************************************)
\* the stages of the analysis of the current image that have run to the end
BinsReduced ==
    /\ processor # NoProcessor
    /\ Len(processor.box_means) = processor.num_boxes
AcfDone == StoredExactly(acf_results, ChannelBins(processor))
CcfDone == StoredExactly(ccf_results, CCFBins(processor))
PeaksDone == StoredExactly(peak_results, ChannelBins(processor))

\* C26: the stages of an image run in the order bin reduction,
\* autocorrelation, cross-correlation (two channels), peak-shape extraction,
\* aggregation: a stage is entered only when the stages before it have
\* stored the measurements of every bin.
C26_StagesInStrictOrder ==
    /\ pc \in {"acf", "ccf", "peaks", "summarize"} => BinsReduced
    /\ pc \in {"ccf", "peaks", "summarize"} => AcfDone
    /\ pc \in {"peaks", "summarize"} => (processor.num_channels = 2 => CcfDone)
    /\ pc = "summarize" => PeaksDone

\* C26, as the drivers run the stages: bin reduction, then the
\* autocorrelations, then the cross-correlations and the peak-shape
\* extraction (the script in this order, combined.py the peaks first), then
\* aggregation, which is entered only when every stage before it has stored
\* the measurements of every bin.
C26_AggregationAfterEveryStage ==
    /\ pc \in {"acf", "ccf", "peaks", "summarize"} => BinsReduced
    /\ pc \in {"ccf", "peaks", "summarize"} => AcfDone
    /\ pc = "summarize" => (PeaksDone /\ (processor.num_channels = 2 => CcfDone))
    /\ (pc = "peaks" /\ driver = "script" /\ processor.num_channels = 2) => CcfDone
    /\ (pc = "ccf" /\ driver = "combined") => PeaksDone

\* combined.py is about to summarize a two-channel image
C26_Witness ==
    /\ pc = "summarize"
    /\ driver = "combined"
    /\ processor.num_channels = 2
    /\ AcfDone /\ CcfDone /\ PeaksDone
    /\ Len(peak_results) = 2

\* the number of entries of the two logs that name the file
TimesProcessed(file_name) ==
    Cardinality({i \in DOMAIN log_params["Files Processed"] :
                    log_params["Files Processed"][i] = file_name})
TimesNotProcessed(file_name) ==
    Cardinality({i \in DOMAIN log_params["Files Not Processed"] :
                    log_params["Files Not Processed"][i][1] = file_name})

\* every file is in exactly one of the two logs, once, and there is one
\* summary record per processed file
FilesAccounted ==
    /\ \A i \in DOMAIN file_names :
          TimesProcessed(file_names[i]) + TimesNotProcessed(file_names[i]) = 1
    /\ Len(summary_list) = Len(log_params["Files Processed"])

\* C27: when a batch that passed the configuration checks has ended, by
\* reaching its last statement or by an error, every .tif file of the folder
\* is in exactly one of 'Files Processed' and 'Files Not Processed', and
\* there are as many summary records as entries of 'Files Processed'.
C27_EveryFileAccountedFor ==
    pc \in {"done", "raised"} => FilesAccounted

\* C28: for the file being processed, when the configuration check matched
\* exactly one label to its full name, the assignment has not failed and the
\* label assigned is that label.
C28_AssignedLabelIsCheckedLabel ==
    (/\ idx > 0
     /\ group_names # NoGroups
     /\ TimesProcessed(file_names[idx]) = 1
     /\ Len(MatchingGroups(group_names, file_names[idx])) = 1) =>
        /\ raised # "IndexError"
        /\ group_name = MatchingGroups(group_names, file_names[idx])[1]

\* the folder has files and the main loop has skipped every one of them
AllSkipped ==
    /\ Len(file_names) > 0
    /\ \A i \in DOMAIN file_names : TimesNotProcessed(file_names[i]) = 1

\* C30: a batch in which every file was skipped does not end with an error:
\* when it has ended, the summary table is saved and empty and the run log
\* is written and lists every skipped file.
C30_AllSkippedBatchCompletes ==
    (AllSkipped /\ pc \in {"done", "raised"}) =>
        /\ pc = "done" /\ raised = "none"
        /\ summary_df.saved /\ summary_df.rows = <<>>
        /\ log_file.written
        /\ Len(log_file.params["Files Not Processed"]) = Len(file_names)

(***************************************************************************)
(* Properties of add_stats (SpecStats).                                    *)
(***************************************************************************)
\* C10: the list add_stats returns holds, after the name, the mean, median
\* and standard deviation of the non-NaN measurements and their standard
\* deviation divided by the square root of the number of non-NaN measurements.
C10_SemOverNonNanCount ==
    pc = "done" =>
        /\ measurement_list[2] = nanmean(SubSeq(measurement_list, 6, Len(measurement_list)))
        /\ measurement_list[3] = nanmedian(SubSeq(measurement_list, 6, Len(measurement_list)))
        /\ measurement_list[4] = nanstd(SubSeq(measurement_list, 6, Len(measurement_list)))
        /\ measurement_list[5] =
              StdOverSqrt(nanstd(SubSeq(measurement_list, 6, Len(measurement_list))),
                          Len(NonNan(SubSeq(measurement_list, 6, Len(measurement_list)))))

(***************************************************************************)
(* Properties of the boxes cut from the pixels (SpecBins).                 *)
(***************************************************************************)
\* the pixels covered by the full boxes that fit into the image: rows and
\* columns from index 0 up to the last multiple of the box size
FullBoxArea(p) ==
    {<<r, c>> \in (0..(p.y_dim - 1)) \X (0..(p.x_dim - 1)) :
        /\ r < (p.y_dim \div p.box_size) * p.box_size
        /\ c < (p.x_dim \div p.box_size) * p.box_size}

\* C11: once the constructor has run, every box covers box_size * box_size
\* pixels of the image (never a partial or an empty footprint), no two boxes
\* share a pixel, and together the boxes cover exactly the rows and columns
\* from index 0 up to the last full box.
C11_BoxesInsideImage ==
    pc = "done" =>
        /\ \A b \in DOMAIN processor.footprints :
              Cardinality(processor.footprints[b]) = processor.box_size * processor.box_size
        /\ \A b1, b2 \in DOMAIN processor.footprints :
              b1 # b2 => processor.footprints[b1] \cap processor.footprints[b2] = {}
        /\ UNION {processor.footprints[b] : b \in DOMAIN processor.footprints}
              = FullBoxArea(processor)

====
